---- MODULE Spec2Model ----
(***************************************************************************)
(* Session gateway of the AI-powered web terminal: the SSH Connection      *)
(* Manager (SSHManager) and the per-channel Session Broker (SocketHandler).*)
(* One action per handler, timer callback or environment event; a handler  *)
(* runs atomically up to its first real suspension point (the SSH dial).   *)
(***************************************************************************)
EXTENDS Integers, Sequences, FiniteSets, TLC

\* ------------------------------------------------------------------ bounds
NumBrokers    == 1
MaxConns      == 2
MaxCloses     == 1
MaxErrors     == 1
MaxReconnects == 1
MaxInputs     == 2

MaxRequests   == 6     \* login requests of one source address
MaxProfileReqs == 2    \* profile requests of one source address
MaxTokens     == 2     \* logins while the token checks are explored
MaxLate       == 1     \* half seconds the clock runs on from its start
MaxWindows    == 1     \* limiter windows the clock runs through
MaxProfiles   == 2     \* rows of ssh_profiles
MaxCommands   == 2     \* commands in one assistant response

\* -------------------------------------------------------- program constants
\* 30 * 60 * 1000 ms; idle times are counted in units of 30 minutes
IdleLimit == 1

Brokers      == 1 .. NumBrokers
Users        == {1, 2}
SessionOrder == <<"s1", "s2">>
SessionIds   == {SessionOrder[i] : i \in 1 .. Len(SessionOrder)}
ProfileIds   == {"p1", "p2"}
ConnIds      == 1 .. MaxConns

CONNECTING   == "connecting"
CONNECTED    == "connected"
DISCONNECTED == "disconnected"
RECONNECTING == "reconnecting"
ERROR        == "error"

\* rows of ssh_profiles: p1 belongs to user 1, p2 to user 2, both active
ProfileRow(p) == [user_id |-> IF p = "p1" THEN 1 ELSE 2, is_active |-> TRUE]

VARIABLES
  chan,             \* chan[b]: "init" | "open" | "closed", the socket of broker b
  user,             \* user[b]: socket.userId, set from the verified token
  userSessions,     \* userSessions[b][s]: connection-id, 0 when s has no entry
  connections,      \* SSHManager.connections: the ids in the map
  conn,             \* conn[c]: the SSHConnection object of id c (it outlives the map entry)
  nextId,           \* next id generateId() hands out
  statusListeners,  \* listeners of sshManager 'statusChange', in registration order
  dataListeners,    \* listeners of sshManager 'data', in registration order
  dials,            \* handleSSHConnect invocations suspended in createConnection
  timers,           \* timers[c]: pending setTimeout callbacks of attemptReconnection
  redials,          \* redials[c]: reconnection attempts suspended in newSSH.connect
  openShells,       \* shells <<c, g>> that are open and have handlers attached
  endedShells,      \* shells whose SSH client was disposed; they can only still close
  dbSessions,       \* terminal_sessions rows by primary key
  lastUsed,         \* lastUsed[p]: how often ssh_profiles.last_used of p was set
  written,          \* written[c]: payloads written to the shell of c
  recv,             \* recv[c]: payloads received for c while it was connected
  counts            \* closes, errors: shell 'close' and 'error' events so far;
                    \* reconnects: successful redials; inputs: payloads passed to
                    \* sendCommand; noop: a closeConnection call found its id absent;
                    \* attempts: reconnection timers that have fired

\* the HTTP side and the handshake of the streams
VARIABLES
  now,              \* Date.now(), in milliseconds
  minted,           \* the tokens jwt.sign has produced
  handshake,        \* handshake[b]: what the stream of broker b presented, and when
  served,           \* how many profile requests reached the ProfileController
  buckets,          \* buckets[l][ip]: the entry of limiter l for source address ip
  replies           \* replies[ip]: the replies to the login requests of ip, in order

httpVars == <<now, minted, handshake, served, buckets, replies>>

\* the tables behind the HTTP side
VARIABLES
  users,            \* rows of users, in insertion order
  profiles,         \* rows of ssh_profiles, in insertion order
  probe,            \* the last value handed to a function of the shared utilities, and its result
  pending           \* register requests suspended in bcrypt.hash

storeVars == <<users, profiles, probe, pending>>

vars == <<chan, user, userSessions, connections, conn, nextId, statusListeners,
          dataListeners, dials, timers, redials, openShells, endedShells,
          dbSessions, lastUsed, written, recv, counts,
          now, minted, handshake, served, buckets, replies,
          users, profiles, probe, pending>>

\* owner, session, result and announced are bookkeeping: the broker and
\* session-id that asked for the connection, how createConnection ended, and
\* whether handleSSHConnect reached its ssh:status{connected}
\* window is the last size sent to the shell with setWindow (none: 0 x 0)
NoDims == [cols |-> 0, rows |-> 0]
NoConn == [status |-> "none", shell |-> 0, gens |-> 0, idle |-> 0, owner |-> 0,
           session |-> "", result |-> "none", announced |-> FALSE,
           dimensions |-> NoDims, window |-> NoDims]
NoRow  == [exists |-> FALSE, user_id |-> 0, profile_id |-> "", status |-> ""]

\* ------------------------------------------------------------ messages
\* conn and by are not sent: they name the connection the message is about
\* (0 when there is none) and the statement that emitted it
StatusMsg(s, status, c, by) ==
  [type |-> "ssh:status", sessionId |-> s, status |-> status, field |-> "",
   conn |-> c, by |-> by, to |-> 0]

OutputMsg(s, field, c, by) ==
  [type |-> "terminal:output", sessionId |-> s, status |-> "", field |-> field,
   conn |-> c, by |-> by, to |-> 0]

\* socket.emit: a packet for a socket that is not open is discarded
SocketEmit(st, b, m) ==
  IF st.chan[b] = "open" THEN [st EXCEPT !.sent = Append(@, [m EXCEPT !.to = b])] ELSE st

GlobalListener(b)        == [kind |-> "global", b |-> b, s |-> "", c |-> 0]
SessionListener(b, s, c) == [kind |-> "session", b |-> b, s |-> s, c |-> c]

RemoveListener(ls, l) == SelectSeq(ls, LAMBDA x : x # l)

\* the state a handler works on, with the events SSHManager emits (emitted) and
\* the messages the clients receive (sent) while the handler runs
Cur == [chan |-> chan, us |-> userSessions, conns |-> connections, conn |-> conn,
        sl |-> statusListeners, dl |-> dataListeners, db |-> dbSessions,
        lu |-> lastUsed,
        open |-> openShells, ended |-> endedShells, timers |-> timers,
        written |-> written, emitted |-> <<>>, sent |-> <<>>]

CommitSession(st) ==
  /\ chan' = st.chan
  /\ userSessions' = st.us
  /\ connections' = st.conns
  /\ conn' = st.conn
  /\ statusListeners' = st.sl
  /\ dataListeners' = st.dl
  /\ dbSessions' = st.db
  /\ lastUsed' = st.lu
  /\ openShells' = st.open
  /\ endedShells' = st.ended
  /\ timers' = st.timers
  /\ written' = st.written

\* a handler of the session side leaves the HTTP side alone
Commit(st) == CommitSession(st) /\ UNCHANGED httpVars /\ UNCHANGED storeVars

\* the session-id the broker's map holds for connection c ("" when none)
SessionOf(us, b, c) ==
  IF \E s \in SessionIds : us[b][s] = c
    THEN CHOOSE s \in SessionIds : us[b][s] = c
    ELSE ""

\* ------------------------------------------------- listeners of the broker
\* SocketHandler.handleSSHStatusChange, registered by initialize()
HandleSSHStatusChange(st, b, c, status) ==
  LET sid == SessionOf(st.us, b, c) IN
  IF sid = "" THEN st
  ELSE LET st1 == SocketEmit(st, b, StatusMsg(sid, status, c, "global")) IN
       [st1 EXCEPT !.db = [r \in SessionIds |->
           IF st1.db[r].exists /\ st1.db[r].profile_id = sid /\ st1.db[r].user_id = user[b]
             THEN [st1.db[r] EXCEPT !.status = status]
             ELSE st1.db[r]]]

\* SocketHandler.handleSSHData, registered by initialize()
HandleSSHData(st, b, c) ==
  LET sid == SessionOf(st.us, b, c) IN
  IF sid = "" THEN st
  ELSE SocketEmit(st, b, OutputMsg(sid, "output", c, "global"))

\* statusHandler, the closure handleSSHConnect installs for one session
StatusHandler(st, l, c, status) ==
  IF c # l.c THEN st
  ELSE LET st1 == SocketEmit(st, l.b, StatusMsg(l.s, status, c, "session")) IN
       IF status \in {DISCONNECTED, ERROR}
         THEN [st1 EXCEPT !.us[l.b][l.s] = 0,
                          !.dl = RemoveListener(@, l),
                          !.sl = RemoveListener(@, l)]
         ELSE st1

\* dataHandler, the closure handleSSHConnect installs for one session
DataHandler(st, l, c) ==
  IF c # l.c THEN st
  ELSE SocketEmit(st, l.b, OutputMsg(l.s, "data", c, "session"))

CallStatusListener(st, l, c, status) ==
  IF l.kind = "global" THEN HandleSSHStatusChange(st, l.b, c, status)
  ELSE StatusHandler(st, l, c, status)

CallDataListener(st, l, c) ==
  IF l.kind = "global" THEN HandleSSHData(st, l.b, c)
  ELSE DataHandler(st, l, c)

\* EventEmitter.emit calls the listeners registered when emit started, in order
RECURSIVE RunStatusListeners(_, _, _, _, _)
RunStatusListeners(ls, i, st, c, status) ==
  IF i > Len(ls) THEN st
  ELSE RunStatusListeners(ls, i + 1, CallStatusListener(st, ls[i], c, status), c, status)

RECURSIVE RunDataListeners(_, _, _, _)
RunDataListeners(ls, i, st, c) ==
  IF i > Len(ls) THEN st
  ELSE RunDataListeners(ls, i + 1, CallDataListener(st, ls[i], c), c)

\* this.emit('statusChange', c, status), at the site named by
EmitStatus(st, c, status, by) ==
  LET st1 == [st EXCEPT !.emitted = Append(@, [event |-> "statusChange", c |-> c,
                                                 status |-> status, by |-> by])] IN
  RunStatusListeners(st1.sl, 1, st1, c, status)

\* this.emit('data', c, chunk)
EmitData(st, c) ==
  LET st1 == [st EXCEPT !.emitted = Append(@, [event |-> "data", c |-> c,
                                                 status |-> "", by |-> "shell"])] IN
  RunDataListeners(st1.dl, 1, st1, c)

\* ------------------------------------------------------------ SSHManager
ShellsOf(S, c) == {sh \in S : sh[1] = c}

\* createConnection up to `await ssh.connect(config)`
CreateStart(st, c, b) ==
  LET st1 == [st EXCEPT !.conn[c] = [status |-> CONNECTING, shell |-> 0, gens |-> 0,
                                      idle |-> 0, owner |-> b, session |-> "",
                                      result |-> "pending", announced |-> FALSE,
                                      dimensions |-> [cols |-> 80, rows |-> 24],
                                      window |-> NoDims],
                        !.conns = @ \cup {c}] IN
  EmitStatus(st1, c, CONNECTING, "create")

\* createConnection after ssh.connect and ssh.requestShell resolved
CreateOk(st, c) ==
  LET st1 == [st EXCEPT !.conn[c].shell = 1,
                        !.conn[c].gens = 1,
                        !.conn[c].result = "returned",
                        !.conn[c].status = CONNECTED,
                        !.conn[c].idle = 0,
                        !.open = @ \cup {<<c, 1>>}] IN
  EmitStatus(st1, c, CONNECTED, "create")

\* a catch block that emits the error but leaves the record in the map
CreateFail_KeepsRecord(st, c) ==
  LET st1 == EmitStatus([st EXCEPT !.conn[c].status = ERROR], c, ERROR, "create") IN
  [st1 EXCEPT !.conn[c].result = "thrown"]

\* createConnection, the catch block
CreateFail(st, c) ==
  LET st1 == EmitStatus([st EXCEPT !.conn[c].status = ERROR], c, ERROR, "create") IN
  [st1 EXCEPT !.conns = @ \ {c}, !.conn[c].result = "thrown"]

\* guards that look at the map and the shell but not at the status
SendCommandThrows_IgnoresStatus(st, c) ==
  \/ c \notin st.conns
  \/ st.conn[c].shell = 0

\* the guards of sendCommand and resizeTerminal
SendCommandThrows(st, c) ==
  \/ c \notin st.conns
  \/ st.conn[c].status # CONNECTED
  \/ st.conn[c].shell = 0

\* a sendCommand that puts the payload in front of what the shell already got
SendCommand_Prepends(st, c, k) ==
  IF SendCommandThrows(st, c) THEN st
  ELSE [st EXCEPT !.conn[c].idle = 0,
                  !.written[c] = <<k>> \o @]

\* sendCommand(c, k); a throw leaves the state as it is
SendCommand(st, c, k) ==
  IF SendCommandThrows(st, c) THEN st
  ELSE [st EXCEPT !.conn[c].idle = 0,
                  !.written[c] = Append(@, k)]

\* a closeConnection that ends the shell and emits but keeps the record
CloseConnection_KeepsRecord(st, c) ==
  IF c \notin st.conns THEN st
  ELSE LET st1 == [st EXCEPT !.open = @ \ ShellsOf(st.open, c),
                             !.ended = @ \ ShellsOf(st.ended, c)] IN
       EmitStatus(st1, c, DISCONNECTED, "close")

\* a closeConnection without the early return for an absent id
CloseConnection_NoPresenceCheck(st, c) ==
  LET st1 == [st EXCEPT !.open = @ \ ShellsOf(st.open, c),
                        !.ended = @ \ ShellsOf(st.ended, c),
                        !.conns = @ \ {c}] IN
  EmitStatus(st1, c, DISCONNECTED, "close")

\* resizeTerminal(c, dims); a throw leaves the state as it is
ResizeTerminal(st, c, dims) ==
  IF SendCommandThrows(st, c) THEN st
  ELSE [st EXCEPT !.conn[c].dimensions = dims,
                  !.conn[c].window = dims]

\* closeConnection(c)
CloseConnection(st, c) ==
  IF c \notin st.conns THEN st
  ELSE LET st1 == [st EXCEPT !.open = @ \ ShellsOf(st.open, c),
                             !.ended = @ \ ShellsOf(st.ended, c),
                             !.conns = @ \ {c}] IN
       EmitStatus(st1, c, DISCONNECTED, "close")

\* attemptReconnection(c) up to the setTimeout call
AttemptReconnection(st, c) ==
  IF c \notin st.conns THEN st
  ELSE [st EXCEPT !.timers[c] = @ + 1]

\* a close handler that enters reconnecting at once
HandleConnectionClose_Reconnecting(st, c) ==
  IF c \notin st.conns THEN st
  ELSE AttemptReconnection(
         EmitStatus([st EXCEPT !.conn[c].status = RECONNECTING], c, RECONNECTING, "onClose"), c)

\* handleConnectionClose(c), called by shell.on('close')
HandleConnectionClose(st, c) ==
  IF c \notin st.conns THEN st
  ELSE AttemptReconnection(
         EmitStatus([st EXCEPT !.conn[c].status = DISCONNECTED], c, DISCONNECTED, "onClose"), c)

\* handleConnectionError(c), called by shell.on('error')
HandleConnectionError(st, c) ==
  IF c \notin st.conns THEN st
  ELSE AttemptReconnection(
         EmitStatus([st EXCEPT !.conn[c].status = ERROR], c, ERROR, "onError"), c)

\* the setTimeout callback up to `await newSSH.connect(config)`;
\* dispose() of the old client leaves its shells able only to close
ReconnectStart(st, c) ==
  LET st1 == EmitStatus([st EXCEPT !.conn[c].status = RECONNECTING], c, RECONNECTING, "reconnect") IN
  [st1 EXCEPT !.ended = @ \cup ShellsOf(st1.open, c),
              !.open = @ \ ShellsOf(st1.open, c)]

\* the setTimeout callback after connect and requestShell resolved
ReconnectOk(st, c) ==
  LET g == st.conn[c].gens + 1
      st1 == [st EXCEPT !.conn[c].shell = g,
                        !.conn[c].gens = g,
                        !.conn[c].status = CONNECTED,
                        !.conn[c].idle = 0,
                        !.open = @ \cup {<<c, g>>}] IN
  EmitStatus(st1, c, CONNECTED, "reconnect")

\* a catch block that schedules another attempt after a failed one
ReconnectFail_Retries(st, c) ==
  [EmitStatus([st EXCEPT !.conn[c].status = ERROR], c, ERROR, "reconnect")
     EXCEPT !.timers[c] = @ + 1]

\* the setTimeout callback, the catch block
ReconnectFail(st, c) ==
  EmitStatus([st EXCEPT !.conn[c].status = ERROR], c, ERROR, "reconnect")

\* an idle test with a window twice as long
Stale_LongerWindow(st, c) == st.conn[c].idle > 2 * IdleLimit

\* timeSinceActivity > 30 * 60 * 1000
Stale(st, c) == st.conn[c].idle > IdleLimit

\* a sweeper pass that only logs the idle connections
KeepAliveCheck_OnlyLogs(st, c) == st

\* the setInterval callback of startKeepAliveCheck, over the map in insertion order
RECURSIVE KeepAliveCheck(_, _)
KeepAliveCheck(st, c) ==
  IF c > MaxConns THEN st
  ELSE KeepAliveCheck(IF c \in st.conns /\ Stale(st, c) THEN CloseConnection(st, c) ELSE st,
                      c + 1)

\* ---------------------------------------------------------- SocketHandler
\* handleSSHConnect after createConnection returned c
ConnectContinue(st, d) ==
  LET st1 == [st EXCEPT !.us[d.b][d.s] = d.c, !.conn[d.c].session = d.s,
                        !.lu[d.p] = @ + 1] IN
  IF st1.db[d.s].exists
    THEN \* INSERT violates the primary key; the catch block reports it
         SocketEmit(st1, d.b, StatusMsg(d.s, ERROR, d.c, "connect-catch"))
    ELSE LET st2 == [st1 EXCEPT !.db[d.s] = [exists |-> TRUE, user_id |-> user[d.b],
                                             profile_id |-> d.p, status |-> CONNECTED]]
             st3 == SocketEmit(st2, d.b, StatusMsg(d.s, CONNECTED, d.c, "connect")) IN
         [st3 EXCEPT !.conn[d.c].announced = TRUE,
                     !.dl = Append(@, SessionListener(d.b, d.s, d.c)),
                     !.sl = Append(@, SessionListener(d.b, d.s, d.c))]

\* cleanup(): closeConnection for every value of userSessions, then clear()
RECURSIVE CloseAll(_, _, _)
CloseAll(st, b, i) ==
  IF i > Len(SessionOrder) THEN st
  ELSE LET c == st.us[b][SessionOrder[i]] IN
       CloseAll(IF c # 0 THEN CloseConnection(st, c) ELSE st, b, i + 1)

Cleanup(st, b) ==
  [CloseAll(st, b, 1) EXCEPT !.us[b] = [s \in SessionIds |-> 0]]

\* the socket 'disconnect' closures handleSSHConnect registered
RemoveSessionListeners(st, b) ==
  [st EXCEPT !.dl = SelectSeq(@, LAMBDA l : ~(l.kind = "session" /\ l.b = b)),
             !.sl = SelectSeq(@, LAMBDA l : ~(l.kind = "session" /\ l.b = b))]

\* ------------------------------------------------------------- HTTP side
\* JWT_EXPIRES_IN = '7d', in seconds (7 * 24 * 60 * 60)
Lifetime == 604800

\* authRateLimiter and rateLimiter: points, duration and blockDuration (s);
\* the duration of rateLimiter is 900000 ms / 1000
AuthPoints     == 5
AuthDuration   == 900
AuthBlock      == 900
GlobalPoints   == 100
GlobalDuration == 900

Limiters == {"auth", "global"}
Ips      == {1, 2}

Points(l)   == IF l = "auth" THEN AuthPoints ELSE GlobalPoints
Duration(l) == IF l = "auth" THEN AuthDuration ELSE GlobalDuration
Block(l)    == IF l = "auth" THEN AuthBlock ELSE 0

\* a token; at (the instant it was signed) is not part of it
NoToken == [present |-> FALSE, userId |-> 0, iat |-> 0, exp |-> 0, sig |-> FALSE, at |-> 0]

\* jwt.sign(payload, JWT_SECRET, {expiresIn: '7d'}) at instant t
JwtSign(u, t) ==
  [present |-> TRUE, userId |-> u, iat |-> t \div 1000, exp |-> (t \div 1000) + Lifetime,
   sig |-> TRUE, at |-> t]

\* a token signed with another secret
Forged(u) ==
  [present |-> TRUE, userId |-> u, iat |-> 0, exp |-> 2 * Lifetime, sig |-> FALSE, at |-> 0]

\* jwt.verify(token, JWT_SECRET) at instant t does not throw
JwtVerify(tok, t) == tok.present /\ tok.sig /\ (t \div 1000) < tok.exp

NoHandshake == [tok |-> NoToken, at |-> 0]
NoBucket    == [consumed |-> 0, expire |-> 0]

\* io.use: the stream goes on to 'connection' only if the token verifies
IoUse(tok, t) ==
  IF ~tok.present THEN "error"
  ELSE IF JwtVerify(tok, t) THEN "next" ELSE "error"

\* the Authorization header of a request
NoHeader == [scheme |-> "", tok |-> NoToken]

AuthMiddleware_TrustsBearer(hdr, t) ==
  IF hdr.scheme # "Bearer" THEN "401" ELSE "next"

\* authMiddleware
AuthMiddleware(hdr, t) ==
  IF hdr.scheme # "Bearer" THEN "401"
  ELSE IF JwtVerify(hdr.tok, t) THEN "next" ELSE "401"

\* RateLimiterMemory.consume(key) of limiter l at instant t on the entry bk of
\* the key: the entry after it, whether it resolved, and msBeforeNext
Consume(l, bk, t) ==
  LET cur == IF bk.expire > t THEN bk
             ELSE [consumed |-> 0, expire |-> t + Duration(l) * 1000]
      c1  == cur.consumed + 1
  IN IF c1 <= Points(l)
       THEN [bucket |-> [consumed |-> c1, expire |-> cur.expire], ok |-> TRUE,
             ms |-> cur.expire - t]
     ELSE IF Block(l) > 0 /\ c1 <= Points(l) + 1
       THEN [bucket |-> [consumed |-> c1, expire |-> t + Block(l) * 1000], ok |-> FALSE,
             ms |-> Block(l) * 1000]
     ELSE [bucket |-> [consumed |-> c1, expire |-> cur.expire], ok |-> FALSE,
           ms |-> cur.expire - t]

\* Math.round(rejRes.msBeforeNext / 1000) || 1
RetryAfter(ms) ==
  LET secs == (ms + 500) \div 1000 IN IF secs = 0 THEN 1 ELSE secs

\* a path is the sequence of its segments; req.path.includes('/auth/'): some
\* segment but the last is "auth"
IncludesAuth(path) == \E i \in 1 .. Len(path) - 1 : path[i] = "auth"

LoginPath == <<"api", "auth", "login">>

\* the path of a profile operation on the profile id
ProfilePath(op, id) ==
  CASE op \in {"list", "create"} -> <<"api", "profiles">>
    [] op \in {"update", "delete"} -> <<"api", "profiles", id>>
    [] OTHER -> <<"api", "profiles", id, "test">>

\* the limiter rateLimitMiddleware picks for a path
LimiterOf(path) == IF IncludesAuth(path) THEN "auth" ELSE "global"

Reply(req, status, retry) ==
  [req |-> req, status |-> status, retryAfter |-> retry, at |-> now]

\* state of the HTTP side threaded through one request
Http == [minted |-> minted, served |-> served, buckets |-> buckets, reply |-> Reply("", 0, 0)]

\* POST /api/auth/login from ip: rateLimitMiddleware, then authRateLimit on the
\* route, then login
LoginResult(ip, u, pwOk) ==
  LET g == Consume(LimiterOf(LoginPath), buckets["auth"][ip], now)
      r == Consume("auth", g.bucket, now)
  IN IF ~g.ok
       THEN [Http EXCEPT !.buckets["auth"][ip] = g.bucket,
                         !.reply = Reply("login", 429, RetryAfter(g.ms))]
     ELSE IF ~r.ok
       THEN [Http EXCEPT !.buckets["auth"][ip] = r.bucket,
                         !.reply = Reply("login", 429, RetryAfter(r.ms))]
     ELSE IF ~pwOk
       THEN [Http EXCEPT !.buckets["auth"][ip] = r.bucket,
                         !.reply = Reply("login", 401, 0)]
     ELSE [Http EXCEPT !.buckets["auth"][ip] = r.bucket,
                       !.minted = @ \cup {JwtSign(u, now)},
                       !.reply = Reply("login", 200, 0)]

ProfileOps == {"list", "create", "update", "delete", "test"}

\* a request under /api/profiles from ip: rateLimitMiddleware, authMiddleware,
\* then the ProfileController
ProfileResult(ip, op, hdr) ==
  LET g == Consume(LimiterOf(ProfilePath(op, "p1")), buckets["global"][ip], now)
  IN IF ~g.ok
       THEN [Http EXCEPT !.buckets["global"][ip] = g.bucket,
                         !.reply = Reply(op, 429, RetryAfter(g.ms))]
     ELSE IF AuthMiddleware(hdr, now) # "next"
       THEN [Http EXCEPT !.buckets["global"][ip] = g.bucket,
                         !.reply = Reply(op, 401, 0)]
     ELSE [Http EXCEPT !.buckets["global"][ip] = g.bucket,
                       !.served = @ + 1,
                       !.reply = Reply(op, 200, 0)]

NoProbe == [fn |-> "", input |-> <<>>, result |-> FALSE]

\* ------------------------------------------------------------------ Init
\* everything but the terminal_sessions table
InitExceptRows ==
  /\ chan = [b \in Brokers |-> "init"]
  /\ user = [b \in Brokers |-> 0]
  /\ userSessions = [b \in Brokers |-> [s \in SessionIds |-> 0]]
  /\ connections = {}
  /\ conn = [c \in ConnIds |-> NoConn]
  /\ nextId = 1
  /\ statusListeners = <<>>
  /\ dataListeners = <<>>
  /\ dials = {}
  /\ timers = [c \in ConnIds |-> 0]
  /\ redials = [c \in ConnIds |-> 0]
  /\ openShells = {}
  /\ endedShells = {}
  /\ lastUsed = [p \in ProfileIds |-> 0]
  /\ written = [c \in ConnIds |-> <<>>]
  /\ recv = [c \in ConnIds |-> <<>>]
  /\ counts = [closes |-> 0, errors |-> 0, reconnects |-> 0, inputs |-> 0, noop |-> FALSE,
               attempts |-> 0]
  /\ now = 0
  /\ minted = {}
  /\ handshake = [b \in Brokers |-> NoHandshake]
  /\ served = 0
  /\ buckets = [l \in Limiters |-> [ip \in Ips |-> NoBucket]]
  /\ replies = [ip \in Ips |-> <<>>]
  /\ users = <<>>
  /\ profiles = <<>>
  /\ probe = NoProbe
  /\ pending = {}

\* a server started on a new database
Init ==
  /\ InitExceptRows
  /\ dbSessions = [s \in SessionIds |-> NoRow]

\* ------------------------------------------- what one handler run does
\* ssh:connect{s, p} up to `await this.sshManager.createConnection`
ProfileFound(b, p) == ProfileRow(p).user_id = user[b] /\ ProfileRow(p).is_active

ConnectAccepted(b, p, decryptOk) == ProfileFound(b, p) /\ decryptOk

ConnectResult(b, s, p, decryptOk) ==
  IF ConnectAccepted(b, p, decryptOk)
    THEN CreateStart(SocketEmit(Cur, b, StatusMsg(s, CONNECTING, nextId, "connect")),
                     nextId, b)
    ELSE SocketEmit(SocketEmit(Cur, b, StatusMsg(s, CONNECTING, 0, "connect")),
                    b, StatusMsg(s, ERROR, 0,
                         IF ProfileFound(b, p) THEN "connect-catch" ELSE "connect-notfound"))

\* a handler that stamps the profile as used although the dial failed
DialResult_TouchesProfile(d, ok) ==
  IF ok THEN ConnectContinue(CreateOk(Cur, d.c), d)
  ELSE [SocketEmit(CreateFail(Cur, d.c), d.b, StatusMsg(d.s, ERROR, d.c, "connect-catch"))
          EXCEPT !.lu[d.p] = @ + 1]

\* ssh.connect / requestShell settle; handleSSHConnect runs to its end
DialResult(d, ok) ==
  IF ok THEN ConnectContinue(CreateOk(Cur, d.c), d)
  ELSE SocketEmit(CreateFail(Cur, d.c), d.b, StatusMsg(d.s, ERROR, d.c, "connect-catch"))

\* shell.on('data')
DataResult(sh) == EmitData([Cur EXCEPT !.conn[sh[1]].idle = 0], sh[1])

\* shell.on('close')
CloseResult(sh) ==
  HandleConnectionClose([Cur EXCEPT !.open = @ \ {sh}, !.ended = @ \ {sh}], sh[1])

\* shell.on('error')
ErrorResult(sh) == HandleConnectionError(Cur, sh[1])

\* the setTimeout callback up to its first await
TimerResult(c) == ReconnectStart([Cur EXCEPT !.timers[c] = @ - 1], c)

\* the setTimeout callback from its first await on
RedialResult(c, ok) == IF ok THEN ReconnectOk(Cur, c) ELSE ReconnectFail(Cur, c)

\* a handler that writes to the first connection of the mapping, whatever s is
InputResult_FirstMapped(b, s, data) ==
  LET mapped == {c \in ConnIds : \E q \in SessionIds : userSessions[b][q] = c} IN
  IF mapped # {} /\ data # 0
    THEN SendCommand(Cur, CHOOSE c \in mapped : \A k \in mapped : c <= k, data)
    ELSE Cur

\* terminal:input{s, data}; data = 0 stands for an empty or missing data field
InputResult(b, s, data) ==
  LET c == userSessions[b][s] IN
  IF c # 0 /\ data # 0 THEN SendCommand(Cur, c, data) ELSE Cur

\* an ssh:disconnect whose UPDATE does not look at the owner of the row
DisconnectResult_AnyOwner(b, s) ==
  LET c == userSessions[b][s]
      st1 == IF c # 0 THEN [CloseConnection(Cur, c) EXCEPT !.us[b][s] = 0] ELSE Cur IN
  [st1 EXCEPT !.db[s] = IF @.exists THEN [@ EXCEPT !.status = DISCONNECTED] ELSE @]

\* ssh:disconnect(s)
DisconnectResult(b, s) ==
  LET c == userSessions[b][s]
      st1 == IF c # 0 THEN [CloseConnection(Cur, c) EXCEPT !.us[b][s] = 0] ELSE Cur IN
  [st1 EXCEPT !.db[s] = IF @.exists /\ @.user_id = user[b]
                          THEN [@ EXCEPT !.status = DISCONNECTED] ELSE @]

\* socket 'disconnect': cleanup(), then the closures the sessions registered
ChannelCloseResult(b) ==
  RemoveSessionListeners(Cleanup([Cur EXCEPT !.chan[b] = "closed"], b), b)

\* one pass of the keep-alive interval
SweepResult == KeepAliveCheck(Cur, 1)

\* --------------------------------------------------------------- actions
\* io.on('connection'): a broker for a channel whose token verified as user u;
\* brokers are numbered in the order their channels open
\* new SocketHandler(io, socket, sshManager, userId) and initialize()
OpenResult(b) ==
  [Cur EXCEPT !.chan[b] = "open",
              !.sl = Append(@, GlobalListener(b)),
              !.dl = Append(@, GlobalListener(b))]

ChannelOpen(b, u) ==
  /\ chan[b] = "init"
  /\ \A a \in Brokers : a < b => chan[a] # "init"
  /\ u <= b
  /\ user' = [user EXCEPT ![b] = u]
  /\ Commit(OpenResult(b))
  /\ UNCHANGED <<nextId, dials, redials, recv, counts>>

SSHConnect(b, s, p, decryptOk) ==
  /\ chan[b] = "open"
  /\ ConnectAccepted(b, p, decryptOk) => nextId <= MaxConns
  /\ Commit(ConnectResult(b, s, p, decryptOk))
  /\ IF ConnectAccepted(b, p, decryptOk)
       THEN /\ nextId' = nextId + 1
            /\ dials' = dials \cup {[c |-> nextId, b |-> b, s |-> s, p |-> p]}
       ELSE UNCHANGED <<nextId, dials>>
  /\ UNCHANGED <<user, redials, recv, counts>>

DialDone(d, ok) ==
  /\ d \in dials
  /\ dials' = dials \ {d}
  /\ Commit(DialResult(d, ok))
  /\ UNCHANGED <<user, nextId, redials, recv, counts>>

ShellData(sh) ==
  /\ sh \in openShells
  /\ Commit(DataResult(sh))
  /\ UNCHANGED <<user, nextId, dials, redials, recv, counts>>

\* the remote side, or the disposal of its client, closes a shell
ShellClose(sh) ==
  /\ sh \in openShells \cup endedShells
  /\ counts.closes < MaxCloses
  /\ counts' = [counts EXCEPT !.closes = @ + 1]
  /\ Commit(CloseResult(sh))
  /\ UNCHANGED <<user, nextId, dials, redials, recv>>

ShellError(sh) ==
  /\ sh \in openShells
  /\ counts.errors < MaxErrors
  /\ counts' = [counts EXCEPT !.errors = @ + 1]
  /\ Commit(ErrorResult(sh))
  /\ UNCHANGED <<user, nextId, dials, redials, recv>>

\* the 5 s timer of attemptReconnection fires
TimerFire(c) ==
  /\ timers[c] > 0
  /\ Commit(TimerResult(c))
  /\ redials' = [redials EXCEPT ![c] = @ + 1]
  /\ counts' = [counts EXCEPT !.attempts = @ + 1]
  /\ UNCHANGED <<user, nextId, dials, recv>>

\* newSSH.connect / requestShell of a reconnection attempt settle
RedialDone(c, ok) ==
  /\ redials[c] > 0
  /\ ok => counts.reconnects < MaxReconnects
  /\ redials' = [redials EXCEPT ![c] = @ - 1]
  /\ counts' = [counts EXCEPT !.reconnects = IF ok THEN @ + 1 ELSE @]
  /\ Commit(RedialResult(c, ok))
  /\ UNCHANGED <<user, nextId, dials, recv>>

\* a payload that is passed on is named by its number among those passed on
TerminalInput(b, s, empty) ==
  /\ chan[b] = "open"
  /\ LET c == userSessions[b][s]
         data == IF empty THEN 0 ELSE counts.inputs + 1 IN
     /\ Commit(InputResult(b, s, data))
     /\ IF c # 0 /\ data # 0
          THEN /\ counts.inputs < MaxInputs
               /\ counts' = [counts EXCEPT !.inputs = @ + 1]
               /\ recv' = IF c \in connections /\ conn[c].status = CONNECTED
                            THEN [recv EXCEPT ![c] = Append(@, data)]
                            ELSE recv
          ELSE UNCHANGED <<recv, counts>>
  /\ UNCHANGED <<user, nextId, dials, redials>>

SSHDisconnect(b, s) ==
  /\ chan[b] = "open"
  /\ Commit(DisconnectResult(b, s))
  /\ counts' = [counts EXCEPT !.noop =
                   @ \/ (userSessions[b][s] # 0 /\ userSessions[b][s] \notin connections)]
  /\ UNCHANGED <<user, nextId, dials, redials, recv>>

ChannelClose(b) ==
  /\ chan[b] = "open"
  /\ Commit(ChannelCloseResult(b))
  /\ counts' = [counts EXCEPT !.noop =
                   @ \/ (\E s \in SessionIds : userSessions[b][s] # 0
                                                /\ userSessions[b][s] \notin connections)]
  /\ UNCHANGED <<user, nextId, dials, redials, recv>>

\* more than 30 minutes pass without activity on the connections in the map;
\* a dial (30 s timeout) or a 5 s timer cannot span them
Tick ==
  /\ dials = {}
  /\ \A c \in ConnIds : timers[c] = 0 /\ redials[c] = 0
  /\ \E c \in connections : conn[c].idle <= IdleLimit
  /\ Commit([Cur EXCEPT !.conn = [c \in ConnIds |->
                IF c \in connections THEN [@[c] EXCEPT !.idle = IdleLimit + 1] ELSE @[c]]])
  /\ UNCHANGED <<user, nextId, dials, redials, recv, counts>>

\* the 60 s interval of startKeepAliveCheck
Sweep ==
  /\ \E c \in connections : Stale(Cur, c)
  /\ Commit(SweepResult)
  /\ UNCHANGED <<user, nextId, dials, redials, recv, counts>>

Next ==
  \/ \E b \in Brokers, u \in Users : ChannelOpen(b, u)
  \/ \E b \in Brokers, s \in SessionIds, p \in ProfileIds, ok \in BOOLEAN :
        SSHConnect(b, s, p, ok)
  \/ \E d \in dials, ok \in BOOLEAN : DialDone(d, ok)
  \/ \E sh \in openShells : ShellData(sh)
  \/ \E sh \in openShells \cup endedShells : ShellClose(sh)
  \/ \E sh \in openShells : ShellError(sh)
  \/ \E c \in ConnIds : TimerFire(c)
  \/ \E c \in ConnIds, ok \in BOOLEAN : RedialDone(c, ok)
  \/ \E b \in Brokers, s \in SessionIds, e \in BOOLEAN : TerminalInput(b, s, e)
  \/ \E b \in Brokers, s \in SessionIds : SSHDisconnect(b, s)
  \/ \E b \in Brokers : ChannelClose(b)
  \/ Tick
  \/ Sweep

Spec == Init /\ [][Next]_vars

\* ------------------------------------------------- the handler runs of a state
\* Every handler run the program state allows, with the state it ends in, the
\* events SSHManager emitted and the messages the clients received during it.
\* c names the connection the run is about (0: none or several).
ConnectSteps ==
  {[op |-> "ssh:connect", b |-> x[1], s |-> x[2], c |-> 0,
    r |-> ConnectResult(x[1], x[2], x[3], x[4])] :
     x \in {y \in Brokers \X SessionIds \X ProfileIds \X BOOLEAN :
              /\ chan[y[1]] = "open"
              /\ ConnectAccepted(y[1], y[3], y[4]) => nextId <= MaxConns}}

DialSteps ==
  {[op |-> IF ok THEN "dialOk" ELSE "dialFail", b |-> d.b, s |-> d.s, c |-> d.c,
    r |-> DialResult(d, ok)] : d \in dials, ok \in BOOLEAN}

ShellSteps ==
  {[op |-> "shellData", b |-> 0, s |-> "", c |-> sh[1], r |-> DataResult(sh)] :
     sh \in openShells}
  \cup {[op |-> "shellClose", b |-> 0, s |-> "", c |-> sh[1], r |-> CloseResult(sh)] :
     sh \in openShells \cup endedShells}
  \cup {[op |-> "shellError", b |-> 0, s |-> "", c |-> sh[1], r |-> ErrorResult(sh)] :
     sh \in openShells}

ReconnectSteps ==
  {[op |-> "timer", b |-> 0, s |-> "", c |-> c, r |-> TimerResult(c)] :
     c \in {k \in ConnIds : timers[k] > 0}}
  \cup {[op |-> IF ok THEN "redialOk" ELSE "redialFail", b |-> 0, s |-> "", c |-> c,
          r |-> RedialResult(c, ok)] :
     c \in {k \in ConnIds : redials[k] > 0}, ok \in BOOLEAN}

ClientSteps ==
  {[op |-> "terminal:input", b |-> b, s |-> s, c |-> userSessions[b][s],
    r |-> InputResult(b, s, counts.inputs + 1)] :
     b \in {a \in Brokers : chan[a] = "open"}, s \in SessionIds}
  \cup {[op |-> "ssh:disconnect", b |-> b, s |-> s, c |-> userSessions[b][s],
          r |-> DisconnectResult(b, s)] :
     b \in {a \in Brokers : chan[a] = "open"}, s \in SessionIds}
  \cup {[op |-> "channelClose", b |-> b, s |-> "", c |-> 0, r |-> ChannelCloseResult(b)] :
     b \in {a \in Brokers : chan[a] = "open"}}

SweepSteps == {[op |-> "sweep", b |-> 0, s |-> "", c |-> 0, r |-> SweepResult]}

Steps == ConnectSteps \cup DialSteps \cup ShellSteps \cup ReconnectSteps
           \cup ClientSteps \cup SweepSteps

\* the statusChange events of a run that are about connection c
StatusEvents(r, c) ==
  SelectSeq(r.emitted, LAMBDA e : e.event = "statusChange" /\ e.c = c)

Mapped(us, b, c) == \E s \in SessionIds : us[b][s] = c

\* the client of broker b receives ssh:status{s, status} during the run
HasStatus(r, b, s, status) ==
  \E i \in DOMAIN r.sent :
     /\ r.sent[i].type = "ssh:status" /\ r.sent[i].to = b
     /\ r.sent[i].sessionId = s /\ r.sent[i].status = status

\* ------------------------------------------------------------------ claims
\* C1: after a session is connected and its shell closes from the remote side,
\* the client of the owning broker receives ssh:status disconnected for the
\* session, then reconnecting when the 5 s timer fires, then connected when
\* the redial and the shell request succeed.
C1_ReconnectStatusesDelivered ==
  \A c \in connections :
     LET b == conn[c].owner
         s == conn[c].session IN
     conn[c].announced /\ chan[b] = "open" =>
       /\ \A sh \in ShellsOf(openShells, c) :
             conn[c].status = CONNECTED => HasStatus(CloseResult(sh), b, s, DISCONNECTED)
       /\ timers[c] > 0 /\ conn[c].status = DISCONNECTED =>
             HasStatus(TimerResult(c), b, s, RECONNECTING)
       /\ redials[c] > 0 /\ conn[c].status = RECONNECTING =>
             HasStatus(RedialResult(c, TRUE), b, s, CONNECTED)

\* the channel of broker b has closed and nothing started through it is in flight
Quiescent(b) ==
  /\ chan[b] = "closed"
  /\ \A d \in dials : d.b # b
  /\ \A c \in ConnIds : conn[c].owner = b => timers[c] = 0 /\ redials[c] = 0

\* C2: once a client channel has closed and every operation in flight on it
\* has finished, no connection created through its broker is in the map.
C2_NoSessionSurvivesChannel ==
  \A b \in Brokers : Quiescent(b) => \A c \in connections : conn[c].owner # b

\* C3: a data event for a connection-id that is not in the session mapping of
\* broker B produces no terminal:output to the client of B.
C3_NoOutputOutsideMapping ==
  \A sh \in openShells : \A b \in Brokers :
     ~Mapped(userSessions, b, sh[1]) =>
        \A i \in DOMAIN DataResult(sh).sent :
           ~(DataResult(sh).sent[i].type = "terminal:output" /\ DataResult(sh).sent[i].to = b)

\* C4: every entry of a broker's session mapping refers to a connection-id
\* that is in the map of SSHManager and was created by that broker.
C4_MappingRefersToLiveOwnConnection ==
  \A b \in Brokers : \A s \in SessionIds :
     userSessions[b][s] # 0 =>
        userSessions[b][s] \in connections /\ conn[userSessions[b][s]].owner = b

\* the statuses of a sequence of events or messages
Statuses(q) == [i \in DOMAIN q |-> q[i].status]

\* C5: for a connection-id a successful createConnection returned,
\* closeConnection(id) removes id from the map and emits status(disconnected)
\* for id exactly once: the call emits one event for id, a disconnected; every
\* handler run that takes id out of the map emits exactly that; and once id is
\* out of the map no run emits disconnected for it or puts it back.
C5_CloseRemovesAndEmitsOnce ==
  \A c \in ConnIds : conn[c].result = "returned" =>
     /\ c \in connections =>
           LET r == CloseConnection(Cur, c) IN
           c \notin r.conns /\ Statuses(StatusEvents(r, c)) = <<DISCONNECTED>>
     /\ \A x \in Steps :
           /\ c \in connections /\ c \notin x.r.conns =>
                 Statuses(StatusEvents(x.r, c)) = <<DISCONNECTED>>
           /\ c \notin connections =>
                 /\ c \notin x.r.conns
                 /\ \A i \in DOMAIN StatusEvents(x.r, c) :
                       StatusEvents(x.r, c)[i].status # DISCONNECTED

\* closeConnection has removed a connection that createConnection returned
C5_ClosedAfterCreate ==
  \E c \in ConnIds : conn[c].result = "returned" /\ c \notin connections

\* C6: closeConnection(id) for an id that is not in the map (closed before,
\* or never created) emits nothing, throws nothing and changes nothing, and a
\* second closeConnection(id) right after the first changes nothing more.
C6_CloseIsIdempotent ==
  /\ \A c \in ConnIds \ connections : CloseConnection(Cur, c) = Cur
  /\ \A c \in connections :
        CloseConnection(CloseConnection(Cur, c), c) = CloseConnection(Cur, c)

\* a handler has called closeConnection for an id that had left the map
C6_ClosedTwice == counts.noop

\* C7: the payloads of the terminal:input messages received for a session
\* while its connection is connected are written to the connection's shell in
\* the order received.
C7_InputsWrittenInOrder ==
  \A c \in ConnIds :
     /\ written[c] = recv[c]
     /\ \A i, j \in DOMAIN written[c] : i < j => written[c][i] < written[c][j]

\* two payloads were received for one connected session
C7_TwoInputsWritten == \E c \in ConnIds : Len(recv[c]) >= 2

\* the ssh:status messages of a run that SSHManager events produced for the
\* client of broker b about connection c
Forwarded(r, b, c) ==
  SelectSeq(r.sent, LAMBDA m : /\ m.type = "ssh:status" /\ m.to = b /\ m.conn = c
                               /\ m.by \in {"global", "session"})

C9_FailedCreateCleansUp ==
  /\ \A x \in ConnectSteps :
        nextId \in x.r.conns =>
           Statuses(StatusEvents(x.r, nextId)) = <<CONNECTING>>
  /\ \A d \in dials :
        LET r == DialResult(d, FALSE) IN
        /\ conn[d.c].status = CONNECTING
        /\ Statuses(StatusEvents(r, d.c)) = <<ERROR>>
        /\ d.c \notin r.conns
        /\ r.conn[d.c].result = "thrown"
        /\ \A b \in Brokers : ~Mapped(r.us, b, d.c)
  /\ \A c \in ConnIds : conn[c].result = "thrown" =>
        /\ c \notin connections
        /\ \A b \in Brokers : ~Mapped(userSessions, b, c)
        /\ \A x \in Steps : StatusEvents(x.r, c) = <<>> /\ c \notin x.r.conns

\* a createConnection has failed
C9_CreateFailed == \E c \in ConnIds : conn[c].result = "thrown"

RECURSIVE PendingTimers(_)
PendingTimers(c) == IF c > MaxConns THEN 0 ELSE timers[c] + PendingTimers(c + 1)

\* C11: every shell close or error event on a connection in the map schedules
\* exactly one reconnection attempt, a failed attempt leaves the connection
\* in error and schedules nothing, and no other handler run schedules one, so
\* the attempts made and pending never exceed the close and error events.
C11_OneAttemptPerEvent ==
  /\ counts.attempts + PendingTimers(1) <= counts.closes + counts.errors
  /\ \A sh \in openShells \cup endedShells : sh[1] \in connections =>
        CloseResult(sh).timers = [timers EXCEPT ![sh[1]] = @ + 1]
  /\ \A sh \in openShells : sh[1] \in connections =>
        ErrorResult(sh).timers = [timers EXCEPT ![sh[1]] = @ + 1]
  /\ \A c \in ConnIds : timers[c] > 0 =>
        TimerResult(c).timers = [timers EXCEPT ![c] = @ - 1]
  /\ \A c \in ConnIds : redials[c] > 0 =>
        /\ RedialResult(c, FALSE).conn[c].status = ERROR
        /\ RedialResult(c, FALSE).timers = timers
  /\ \A x \in Steps :
        x.op \notin {"shellClose", "shellError", "timer"} => x.r.timers = timers

\* a reconnection attempt has failed and the connection rests in error
C11_AttemptFailed ==
  \E c \in connections :
     /\ conn[c].status = ERROR /\ conn[c].result = "returned"
     /\ timers[c] = 0 /\ redials[c] = 0 /\ counts.attempts >= 1

\* the guard of Sweep; a pass that finds an idle connection removes it from the
\* map, so this is ENABLED <<Sweep>>_vars
SweepEnabled == \E c \in connections : Stale(Cur, c)

\* the keep-alive interval keeps firing (setInterval is never cleared): weak
\* fairness of Sweep, written with its guard for ENABLED
LiveSpec == Init /\ [][Next]_vars /\ ([]<>(~SweepEnabled) \/ []<><<Sweep>>_vars)

\* C12: a connection in the map whose last activity is older than 30 minutes
\* is closed by the next pass of the sweeper: the pass removes it from the
\* map, emits status(disconnected) for it once and, if an open channel maps
\* it to a session, sends ssh:status disconnected to that client; the pass
\* comes eventually, unless activity on the connection comes first.
C12_IdleReaped ==
  /\ [](\A c \in connections : Stale(Cur, c) =>
          /\ c \notin SweepResult.conns
          /\ Statuses(StatusEvents(SweepResult, c)) = <<DISCONNECTED>>
          /\ \A b \in Brokers :
                chan[b] = "open" /\ Mapped(userSessions, b, c) =>
                   HasStatus(SweepResult, b, SessionOf(userSessions, b, c), DISCONNECTED))
  /\ \A c \in ConnIds :
        (c \in connections /\ Stale(Cur, c)) ~> (c \notin connections \/ ~Stale(Cur, c))

\* the sweeper has closed an idle connection that a session was mapped to
\* (the client did not ask for it: the row of the session still says connected)
C12_Reaped ==
  \E c \in ConnIds :
     /\ c \notin connections /\ conn[c].idle > IdleLimit
     /\ conn[c].announced /\ chan[conn[c].owner] = "open"
     /\ dbSessions[conn[c].session].status = CONNECTED

\* ------------------------------------------------------- terminal:resize
Min(a, b) == IF a < b THEN a ELSE b
Max(a, b) == IF a > b THEN a ELSE b

\* parseTerminalDimensions of the shared utilities (no caller in the server)
ParseTerminalDimensions(cols, rows) ==
  [cols |-> Max(1, Min(cols, 300)), rows |-> Max(1, Min(rows, 100))]

ColsInputs == {-1, 0, 1, 80, 300, 301}
RowsInputs == {-1, 0, 1, 24, 100, 101}

\* terminal:resize{s, dimensions}
ResizeResult(b, s, dims) ==
  LET c == userSessions[b][s] IN
  IF c # 0 THEN ResizeTerminal(Cur, c, dims) ELSE Cur

TerminalResize(b, s, cols, rows) ==
  /\ chan[b] = "open"
  /\ Commit(ResizeResult(b, s, [cols |-> cols, rows |-> rows]))
  /\ UNCHANGED <<user, nextId, dials, redials, recv, counts>>

\* sessions being opened and resized
ResizeNext ==
  \/ \E b \in Brokers, u \in Users : ChannelOpen(b, u)
  \/ \E b \in Brokers, s \in SessionIds, p \in ProfileIds : SSHConnect(b, s, p, TRUE)
  \/ \E d \in dials : DialDone(d, TRUE)
  \/ \E b \in Brokers, s \in SessionIds, cols \in ColsInputs, rows \in RowsInputs :
        TerminalResize(b, s, cols, rows)

ResizeSpec == Init /\ [][ResizeNext]_vars

C14_SendFailsUnlessConnected ==
  \A c \in ConnIds :
     c \notin connections \/ conn[c].status # CONNECTED =>
        /\ SendCommandThrows(Cur, c)
        /\ SendCommand(Cur, c, counts.inputs + 1).written = written
        /\ SendCommand(Cur, c, counts.inputs + 1).conn = conn
        /\ SendCommand(Cur, c, counts.inputs + 1) = Cur

\* a payload was passed to sendCommand for a mapped connection and refused
C14_InputRefused ==
  /\ counts.inputs = 1
  /\ \A c \in ConnIds : written[c] = <<>>

\* the run emits status(error) for c and the client of b gets ssh:status
\* error for session s
ErrorReported(r, b, s, c) ==
  /\ \E i \in DOMAIN StatusEvents(r, c) : StatusEvents(r, c)[i].status = ERROR
  /\ HasStatus(r, b, s, ERROR)

ListenersOf(b) ==
  {statusListeners[i] : i \in {k \in DOMAIN statusListeners : statusListeners[k].b = b}}
  \cup {dataListeners[i] : i \in {k \in DOMAIN dataListeners : dataListeners[k].b = b}}

DurableStateKept(r) ==
  r.db = dbSessions /\ r.lu = lastUsed /\ r.us = userSessions

\* C17: an ssh:connect that fails because the profile is not found, the
\* credentials do not decrypt, or the dial or the shell request fails inserts
\* no terminal_sessions row, does not modify the profile row and adds no
\* entry to the session mapping of the broker.
C17_FailedConnectKeepsState ==
  /\ \A x \in ConnectSteps : nextId \notin x.r.conns => DurableStateKept(x.r)
  /\ \A d \in dials : DurableStateKept(DialResult(d, FALSE))

\* a dial has failed after another ssh:connect had succeeded
C17_FailedAfterSuccess ==
  /\ \E c \in ConnIds : conn[c].result = "thrown"
  /\ \E p \in ProfileIds : lastUsed[p] > 0

\* ------------------------------------------------- authentication and limits
CommitHttp(h) ==
  /\ minted' = h.minted
  /\ served' = h.served
  /\ buckets' = h.buckets

sessionVars == <<chan, user, userSessions, connections, conn, nextId, statusListeners,
                 dataListeners, dials, timers, redials, openShells, endedShells,
                 dbSessions, lastUsed, written, recv, counts>>

Login(ip, u, pwOk) ==
  /\ Len(replies[ip]) < MaxRequests
  /\ CommitHttp(LoginResult(ip, u, pwOk))
  /\ replies' = [replies EXCEPT ![ip] = Append(@, LoginResult(ip, u, pwOk).reply)]
  /\ UNCHANGED <<now, handshake>>
  /\ UNCHANGED sessionVars
  /\ UNCHANGED storeVars

Headers ==
  {NoHeader} \cup {[scheme |-> s, tok |-> k] :
                     s \in {"Bearer", "Basic"}, k \in minted \cup {Forged(1)}}

ProfileRequest(ip, op, hdr) ==
  /\ buckets["global"][ip].consumed < MaxProfileReqs
  /\ CommitHttp(ProfileResult(ip, op, hdr))
  /\ UNCHANGED <<now, handshake, replies>>
  /\ UNCHANGED sessionVars
  /\ UNCHANGED storeVars

HandshakeTokens == {NoToken, Forged(1)} \cup minted

\* what the handshake of a stream leaves of the session side
HandshakeResult(b, tok) ==
  IF IoUse(tok, now) = "next" THEN OpenResult(b) ELSE Cur

Handshake(b, tok) ==
  /\ chan[b] = "init"
  /\ \A a \in Brokers : a < b => chan[a] # "init"
  /\ CommitSession(HandshakeResult(b, tok))
  /\ IF IoUse(tok, now) = "next"
       THEN /\ user' = [user EXCEPT ![b] = tok.userId]
            /\ handshake' = [handshake EXCEPT ![b] = [tok |-> tok, at |-> now]]
       ELSE UNCHANGED <<user, handshake>>
  /\ UNCHANGED <<nextId, dials, redials, recv, counts>>
  /\ UNCHANGED <<now, minted, served, buckets, replies>>
  /\ UNCHANGED storeVars

Advance(d) ==
  /\ now' = now + d
  /\ UNCHANGED <<minted, handshake, served, buckets, replies>>
  /\ UNCHANGED sessionVars
  /\ UNCHANGED storeVars

\* the clock of the token checks: half seconds after the start, a jump to the
\* last second of a lifetime, and half seconds from there
AuthInstants ==
  {k * 500 : k \in 0 .. MaxLate}
    \cup {Lifetime * 1000 - 1000 + k * 500 : k \in 0 .. 2 * MaxLate + 2}

AuthClock ==
  \E d \in {500, Lifetime * 1000 - 1000} : now + d \in AuthInstants /\ Advance(d)

AuthNext ==
  \/ \E u \in Users : Len(replies[1]) < MaxTokens /\ Login(1, u, TRUE)
  \/ \E op \in ProfileOps, hdr \in Headers : ProfileRequest(1, op, hdr)
  \/ \E b \in Brokers, tok \in HandshakeTokens : Handshake(b, tok)
  \/ AuthClock

AuthSpec == Init /\ [][AuthNext]_vars

\* the bearer token of a header verifies now
Verifies(hdr) == hdr.scheme = "Bearer" /\ JwtVerify(hdr.tok, now)

C19_ValidForLifetime ==
  \A tok \in minted :
    /\ now < tok.at + Lifetime * 1000 => JwtVerify(tok, now)
    /\ now >= tok.at + Lifetime * 1000 => ~JwtVerify(tok, now)

\* ------------------------------------------------------------ login limits
\* the clock of the limiter checks: thirds of a window, and whole windows
RateClock ==
  \E d \in {(AuthDuration * 1000) \div 3, AuthDuration * 1000} :
    now + d <= MaxWindows * AuthDuration * 1000 /\ Advance(d)

RateNext ==
  \/ \E ip \in Ips : Login(ip, 1, FALSE)
  \/ RateClock

RateSpec == Init /\ [][RateNext]_vars

\* the first i login requests of ip were all made with a wrong password within
\* one window of the first
RapidWrongLogins(ip, i) ==
  /\ i \in DOMAIN replies[ip]
  /\ \A j \in 1 .. i :
       /\ replies[ip][j].status # 200
       /\ replies[ip][j].at < replies[ip][1].at + AuthDuration * 1000

\* C20: of six login requests with a wrong password made from one address
\* within one window of 15 minutes, the first five are answered 401 and the
\* sixth is answered 429 with a retryAfter in (0, 900].
C20_SixthLoginRefused ==
  \A ip \in Ips, i \in 1 .. MaxRequests :
    RapidWrongLogins(ip, i) =>
      /\ i <= 5 => replies[ip][i].status = 401
      /\ i = 6 =>
           /\ replies[ip][i].status = 429
           /\ replies[ip][i].retryAfter \in 1 .. 900

\* ----------------------------------------------------------- global limits
\* paths outside /api/auth: the health check, the profile listing, and the
\* connection test of the profile id "auth"
NonAuthPaths ==
  {<<"health">>, ProfilePath("list", ""), ProfilePath("test", "auth")}

\* rateLimitMiddleware on a request of ip for a path: the limiter entries
\* after it, and 0 when the request goes on to its route, else the 429 reply
MiddlewareResult(ip, path) ==
  LET l == LimiterOf(path)
      g == Consume(l, buckets[l][ip], now)
  IN [buckets |-> [buckets EXCEPT ![l][ip] = g.bucket],
      status |-> IF g.ok THEN 0 ELSE 429,
      retryAfter |-> IF g.ok THEN 0 ELSE RetryAfter(g.ms)]

\* a request that is not a login: only the limiter entries change here
Request(ip, path) ==
  /\ buckets[LimiterOf(path)][ip].consumed <= Points(LimiterOf(path))
  /\ buckets' = MiddlewareResult(ip, path).buckets
  /\ UNCHANGED <<now, minted, handshake, served, replies>>
  /\ UNCHANGED sessionVars
  /\ UNCHANGED storeVars

\* the clock of the global limiter checks: whole windows
GlobalClock ==
  /\ now + GlobalDuration * 1000 <= MaxWindows * GlobalDuration * 1000
  /\ Advance(GlobalDuration * 1000)

GlobalNext ==
  \/ \E path \in NonAuthPaths : Request(1, path)
  \/ GlobalClock

GlobalSpec == Init /\ [][GlobalNext]_vars

\* how many requests of ip the global limiter has counted in the current window
CountedInWindow(ip) ==
  IF buckets["global"][ip].expire > now THEN buckets["global"][ip].consumed ELSE 0

\* C21: for one source address and one window, the first N = 100 requests to
\* paths outside authentication are admitted and the next one in the window is
\* answered 429 with retryAfter > 0; a request to such a path never consumes
\* the authentication bucket (so that, where only such requests are made, the
\* authentication bucket of the address stays untouched).
C21_GlobalLimiter ==
  \A ip \in Ips :
    /\ buckets["auth"][ip] = NoBucket
    /\ \A path \in NonAuthPaths :
         LET r == MiddlewareResult(ip, path)
         IN /\ CountedInWindow(ip) < GlobalPoints => r.status = 0
            /\ CountedInWindow(ip) = GlobalPoints => r.status = 429 /\ r.retryAfter > 0

\* -------------------------------------------------------------------- users
\* A string is the sequence of its characters. A field of a JSON body is a
\* string, a number (chars: its decimal digits) or absent.
Str(chars) == [type |-> "string", chars |-> chars]
Num(chars) == [type |-> "number", chars |-> chars]
Absent     == [type |-> "absent", chars |-> <<>>]

\* !v is false
Truthy(v) == v.type # "absent" /\ v.chars # <<>> /\ v # Num(<<"0">>)

Lowers   == {"a", "b", "c", "i", "o", "x"}
Uppers   == {"A", "B"}
Digits   == {"0", "1"}
Specials == {"@", "$", "!", "%", "*", "?", "&"}

\* String.prototype.toLowerCase, on the characters of the model
LowerChar(c) == CASE c = "A" -> "a" [] c = "B" -> "b" [] OTHER -> c
ToLowerCase(s) == [i \in DOMAIN s |-> LowerChar(s[i])]

\* isValidEmail: /^[^\s@]+@[^\s@]+\.[^\s@]+$/
IsValidEmail(v) ==
  LET e == v.chars
  IN \E i \in 2 .. Len(e) - 3 :
       /\ e[i] = "@"
       /\ \E j \in i + 2 .. Len(e) - 1 : e[j] = "."
       /\ \A k \in DOMAIN e : k # i => e[k] \notin {"@", " "}

\* isStrongPassword: /^(?=.*[a-z])(?=.*[A-Z])(?=.*\d)[a-zA-Z\d@$!%*?&]{8,}$/
IsStrongPassword(v) ==
  LET s == v.chars
  IN /\ \E i \in DOMAIN s : s[i] \in Lowers
     /\ \E i \in DOMAIN s : s[i] \in Uppers
     /\ \E i \in DOMAIN s : s[i] \in Digits
     /\ \A i \in DOMAIN s : s[i] \in Lowers \cup Uppers \cup Digits \cup Specials
     /\ Len(s) >= 8

\* bcrypt.compare(password, hash): the hash of a string is modelled by the
\* string; anything but a string makes bcryptjs reject ("Illegal arguments")
BcryptCompare(v, hash) ==
  IF v.type # "string" THEN "throws"
  ELSE IF v.chars = hash THEN "true" ELSE "false"

\* SELECT ... FROM users WHERE email = ? (TEXT compares byte by byte)
UsersByEmail(email) == {i \in DOMAIN users : users[i].email = email.chars}

Body(status, error) == [status |-> status, error |-> error]

\* AuthController.register up to `await bcrypt.hash`: the reply, or status 0
\* when the request goes on
RegisterChecks(email, password, name) ==
  IF ~Truthy(email) \/ ~Truthy(password) \/ ~Truthy(name)
    THEN Body(400, "Email, password, and name are required")
  ELSE IF ~IsValidEmail(email) THEN Body(400, "Invalid email format")
  ELSE IF ~IsStrongPassword(password)
    THEN Body(400, "Password must be at least 8 characters long and contain uppercase, lowercase, and number")
  ELSE IF UsersByEmail(email) # {} THEN Body(409, "User with this email already exists")
  ELSE Body(0, "")

\* AuthController.register after bcrypt.hash: the INSERT (email is UNIQUE),
\* then jwt.sign
RegisterInsert(r) ==
  IF UsersByEmail(r.email) # {}
    THEN [users |-> users, minted |-> minted, reply |-> Body(500, "Internal server error")]
  ELSE [users |-> Append(users, [email |-> r.email.chars,
                                 password_hash |-> r.password.chars,
                                 last_login |-> -1]),
        minted |-> minted \cup {JwtSign(Len(users) + 1, now)},
        reply |-> Body(201, "")]

\* AuthController.login
LoginHandler(email, password) ==
  LET found == UsersByEmail(email)
      id    == CHOOSE i \in found : TRUE
      fail(b) == [users |-> users, minted |-> minted, reply |-> b]
  IN IF ~Truthy(email) \/ ~Truthy(password)
       THEN fail(Body(400, "Email and password are required"))
     ELSE IF found = {} THEN fail(Body(401, "Invalid email or password"))
     ELSE IF BcryptCompare(password, users[id].password_hash) = "throws"
       THEN fail(Body(500, "Internal server error"))
     ELSE IF BcryptCompare(password, users[id].password_hash) = "false"
       THEN fail(Body(401, "Invalid email or password"))
     ELSE [users |-> [users EXCEPT ![id].last_login = now],
           minted |-> minted \cup {JwtSign(id, now)},
           reply |-> Body(200, "")]

\* rateLimitMiddleware and then authRateLimit on a route of /api/auth
AuthGate(ip, path) ==
  LET m == MiddlewareResult(ip, path)
      r == Consume("auth", m.buckets["auth"][ip], now)
  IN IF m.status # 0 THEN m
     ELSE [buckets |-> [m.buckets EXCEPT !["auth"][ip] = r.bucket],
           status |-> IF r.ok THEN 0 ELSE 429,
           retryAfter |-> IF r.ok THEN 0 ELSE RetryAfter(r.ms)]

RegisterPath == <<"api", "auth", "register">>

EmailA     == <<"a", "@", "x", ".", "i", "o">>
EmailACaps == <<"A", "@", "x", ".", "i", "o">>
EmailB     == <<"b", "@", "x", ".", "i", "o">>
NoAtEmail  == <<"a", "x", ".", "i", "o">>
StrongPw   == <<"A", "a", "1", "a", "a", "a", "a", "a">>
OtherPw    == <<"B", "b", "0", "b", "b", "b", "b", "b">>
ShortPw    == <<"A", "a", "1">>

EmailInputs    == {Absent, Str(EmailA), Str(EmailACaps), Str(EmailB), Str(NoAtEmail)}
PasswordInputs == {Absent, Str(StrongPw), Str(OtherPw), Str(ShortPw),
                   Num(<<"1", "0", "1", "0", "1", "0", "1", "0">>)}
NameInputs     == {Absent, Str(<<"a">>)}

\* POST /api/auth/register up to the first await
RegisterStart(ip, email, password, name) ==
  /\ buckets["auth"][ip].consumed <= AuthPoints
  /\ buckets' = AuthGate(ip, RegisterPath).buckets
  /\ IF AuthGate(ip, RegisterPath).status = 0 /\ RegisterChecks(email, password, name).status = 0
       THEN pending' = pending \cup {[email |-> email, password |-> password]}
       ELSE UNCHANGED pending
  /\ UNCHANGED <<now, minted, handshake, served, replies, users, profiles, probe>>
  /\ UNCHANGED sessionVars

\* bcrypt.hash resolves for a suspended register request
RegisterDone(r) ==
  /\ r \in pending
  /\ pending' = pending \ {r}
  /\ users' = RegisterInsert(r).users
  /\ minted' = RegisterInsert(r).minted
  /\ UNCHANGED <<now, handshake, served, buckets, replies, profiles, probe>>
  /\ UNCHANGED sessionVars

\* POST /api/auth/login
LoginAttempt(ip, email, password) ==
  /\ buckets["auth"][ip].consumed <= AuthPoints
  /\ buckets' = AuthGate(ip, LoginPath).buckets
  /\ IF AuthGate(ip, LoginPath).status = 0
       THEN /\ users' = LoginHandler(email, password).users
            /\ minted' = LoginHandler(email, password).minted
       ELSE UNCHANGED <<users, minted>>
  /\ UNCHANGED <<now, handshake, served, replies, profiles, probe, pending>>
  /\ UNCHANGED sessionVars

UserNext ==
  \/ \E e \in EmailInputs, pw \in PasswordInputs, n \in NameInputs :
       RegisterStart(1, e, pw, n)
  \/ \E r \in pending : RegisterDone(r)
  \/ \E e \in EmailInputs, pw \in PasswordInputs : LoginAttempt(1, e, pw)
  \/ GlobalClock

UserSpec == Init /\ [][UserNext]_vars

\* C22: a failed login does not reveal which field was wrong: of two login
\* requests that carry both fields and both fail, one with an unknown email and
\* one with a known email and a wrong password, the replies (status and body)
\* are identical and neither changes a user row.
C22_FailedLoginUniform ==
  \A e1, e2 \in EmailInputs, p1, p2 \in PasswordInputs :
    LET r1 == LoginHandler(e1, p1)
        r2 == LoginHandler(e2, p2)
    IN ( /\ Truthy(e1) /\ Truthy(p1) /\ Truthy(e2) /\ Truthy(p2)
         /\ UsersByEmail(e1) = {}
         /\ UsersByEmail(e2) # {}
         /\ r1.reply.status # 200
         /\ r2.reply.status # 200 )
       => /\ r1.reply = r2.reply
          /\ r1.users = users
          /\ r2.users = users

\* C23: after any sequence of register requests, no two stored users have
\* emails that are equal when compared without regard to letter case.
C23_EmailsUniqueIgnoringCase ==
  \A i, j \in DOMAIN users :
    i # j => ToLowerCase(users[i].email) # ToLowerCase(users[j].email)

\* ---------------------------------------------------------------- passwords
\* passwords of 7 and 8 characters: a stem of lower-case letters and every
\* tail of TailLen characters over PwChars
TailLen == 3
PwChars == {"a", "A", "1", "!", "#"}
Tails   == [1 .. TailLen -> PwChars]
Stems   == {<<"c", "c", "c", "c">>, <<"c", "c", "c", "c", "c">>}
PwInputs == {s \o tl : s \in Stems, tl \in Tails}

\* a register request for a new email with the password pw reaches, or does
\* not reach, bcrypt.hash
TryPassword(pw) ==
  /\ probe' = [fn |-> "isStrongPassword", input |-> pw,
               result |-> RegisterChecks(Str(EmailB), Str(pw), Str(<<"a">>)).status = 0]
  /\ UNCHANGED <<users, profiles, pending>>
  /\ UNCHANGED httpVars
  /\ UNCHANGED sessionVars

PasswordNext == \E pw \in PwInputs : TryPassword(pw)

PasswordSpec == Init /\ [][PasswordNext]_vars

\* at least 8 characters, one upper-case letter, one lower-case letter, one digit
MeetsPasswordRule(s) ==
  /\ Len(s) >= 8
  /\ \E i \in DOMAIN s : s[i] \in Uppers
  /\ \E i \in DOMAIN s : s[i] \in Lowers
  /\ \E i \in DOMAIN s : s[i] \in Digits

\* C24: registration accepts a password exactly when it has at least 8
\* characters and contains an upper-case letter, a lower-case letter and a
\* digit, whatever other characters it contains.
C24_PasswordAcceptedIffRule ==
  probe.fn = "isStrongPassword" => (probe.result <=> MeetsPasswordRule(probe.input))

\* ----------------------------------------------------------------- profiles
\* ENCRYPTION_KEY, and the cipher: CryptoJS.AES with a passphrase draws a
\* random salt and is modelled by a rotation of the alphabet by key + salt
EncryptionKey == 1
CipherChars   == <<"a", "b", "c">>
Salts         == {0, 1}

CharIndex(c) == CHOOSE i \in DOMAIN CipherChars : CipherChars[i] = c
Rotate(c, n) == CipherChars[((CharIndex(c) - 1 + n) % Len(CipherChars)) + 1]

NoCipher == [salt |-> 0, data |-> <<>>]

\* CryptoJS.AES.encrypt(x, key).toString()
Encrypt(x, key, salt) ==
  [salt |-> salt, data |-> [i \in DOMAIN x |-> Rotate(x[i], key + salt)]]

Decrypt_IgnoresSalt(c, key) ==
  [i \in DOMAIN c.data |->
     Rotate(c.data[i], Len(CipherChars) - (key % Len(CipherChars)))]

\* CryptoJS.AES.decrypt(c, key).toString(CryptoJS.enc.Utf8)
Decrypt(c, key) ==
  [i \in DOMAIN c.data |->
     Rotate(c.data[i], Len(CipherChars) - ((key + c.salt) % Len(CipherChars)))]

Alnum == Lowers \cup Uppers \cup Digits

\* isValidHostname: labels of letters, digits and inner hyphens, joined by
\* dots (the dotted-quad alternative matches nothing more)
IsValidHostname(h) ==
  /\ Len(h) >= 1
  /\ \A i \in DOMAIN h : h[i] \in Alnum \cup {"-", "."}
  /\ h[1] \in Alnum /\ h[Len(h)] \in Alnum
  /\ \A i \in DOMAIN h :
       h[i] = "." => (i > 1 /\ i < Len(h) /\ h[i - 1] \in Alnum /\ h[i + 1] \in Alnum)

\* isValidSSHPort
IsValidSSHPort(port) == port > 0 /\ port <= 65535

FindProfile_IgnoresActive(u, id) ==
  id \in DOMAIN profiles /\ profiles[id].user_id = u

FindProfile_IgnoresOwner(u, id) ==
  id \in DOMAIN profiles /\ profiles[id].is_active

\* SELECT ... FROM ssh_profiles WHERE id = ? AND user_id = ? AND is_active = 1
FindProfile(u, id) ==
  id \in DOMAIN profiles /\ profiles[id].user_id = u /\ profiles[id].is_active

\* SELECT id FROM ssh_profiles WHERE user_id = ? AND name = ? AND is_active = 1
NameTaken(u, name) ==
  \E i \in DOMAIN profiles :
    profiles[i].user_id = u /\ profiles[i].name = name /\ profiles[i].is_active

\* ProfileController.getProfiles: the rows listed, without the credentials
GetProfiles(u) ==
  {[id |-> i, name |-> profiles[i].name, host |-> profiles[i].host,
    port |-> profiles[i].port, username |-> profiles[i].username,
    auth_method |-> profiles[i].auth_method, is_active |-> profiles[i].is_active] :
     i \in {j \in DOMAIN profiles : profiles[j].user_id = u /\ profiles[j].is_active}}

\* the credentials createProfile stores for a request
CredentialsToEncrypt(req, salt) ==
  [authMethod |-> req.authMethod,
   password   |-> IF Truthy(req.password)
                    THEN Encrypt(req.password.chars, EncryptionKey, salt) ELSE NoCipher,
   privateKey |-> IF Truthy(req.privateKey)
                    THEN Encrypt(req.privateKey.chars, EncryptionKey, salt) ELSE NoCipher,
   passphrase |-> IF Truthy(req.passphrase)
                    THEN Encrypt(req.passphrase.chars, EncryptionKey, salt) ELSE NoCipher]

ProfileReply(rows, status, error) == [profiles |-> rows, status |-> status, error |-> error]

\* ProfileController.createProfile for the caller u
CreateProfile(u, req, salt) ==
  IF req.name = "" \/ ~Truthy(req.host) \/ req.username = "" \/ req.authMethod = ""
    THEN ProfileReply(profiles, 400, "Name, host, username, and authentication method are required")
  ELSE IF ~IsValidHostname(req.host.chars)
    THEN ProfileReply(profiles, 400, "Invalid hostname or IP address")
  ELSE IF ~IsValidSSHPort(IF req.port = 0 THEN 22 ELSE req.port)
    THEN ProfileReply(profiles, 400, "Invalid SSH port (must be between 1-65535)")
  ELSE IF req.authMethod \notin {"password", "publicKey"}
    THEN ProfileReply(profiles, 400, "Authentication method must be either password or publicKey")
  ELSE IF req.authMethod = "password" /\ ~Truthy(req.password)
    THEN ProfileReply(profiles, 400, "Password is required for password authentication")
  ELSE IF req.authMethod = "publicKey" /\ ~Truthy(req.privateKey)
    THEN ProfileReply(profiles, 400, "Private key is required for public key authentication")
  ELSE IF NameTaken(u, req.name)
    THEN ProfileReply(profiles, 409, "Profile with this name already exists")
  ELSE ProfileReply(Append(profiles,
                           [user_id |-> u, name |-> req.name, host |-> req.host.chars,
                            port |-> IF req.port = 0 THEN 22 ELSE req.port,
                            username |-> req.username, auth_method |-> req.authMethod,
                            encrypted_credentials |-> CredentialsToEncrypt(req, salt),
                            is_active |-> TRUE]),
                    201, "")

\* ProfileController.updateProfile of the profile id for the caller u
UpdateProfile(u, id, req) ==
  IF ~FindProfile(u, id) THEN ProfileReply(profiles, 404, "Profile not found")
  ELSE IF Truthy(req.host) /\ ~IsValidHostname(req.host.chars)
    THEN ProfileReply(profiles, 400, "Invalid hostname or IP address")
  ELSE IF req.port # 0 /\ ~IsValidSSHPort(req.port)
    THEN ProfileReply(profiles, 400, "Invalid SSH port (must be between 1-65535)")
  ELSE IF req.name = "" /\ ~Truthy(req.host) /\ req.port = 0 /\ req.username = ""
    THEN ProfileReply(profiles, 400, "No valid fields to update")
  ELSE ProfileReply(
         [profiles EXCEPT
            ![id].name = IF req.name # "" THEN req.name ELSE @,
            ![id].host = IF Truthy(req.host) THEN req.host.chars ELSE @,
            ![id].port = IF req.port # 0 THEN req.port ELSE @,
            ![id].username = IF req.username # "" THEN req.username ELSE @],
         200, "")

\* ProfileController.deleteProfile of the profile id for the caller u
DeleteProfile(u, id) ==
  IF ~FindProfile(u, id) THEN ProfileReply(profiles, 404, "Profile not found")
  ELSE ProfileReply([profiles EXCEPT ![id].is_active = FALSE], 200, "")

\* ProfileController.testConnection of the profile id for the caller u
TestConnection(u, id) ==
  IF ~FindProfile(u, id) THEN ProfileReply(profiles, 404, "Profile not found")
  ELSE ProfileReply(profiles, 200, "")

\* ProfileController.decryptCredentials
DecryptCredentials(ec) ==
  [authMethod |-> ec.authMethod,
   password   |-> IF ec.password # NoCipher
                    THEN Str(Decrypt(ec.password, EncryptionKey)) ELSE Absent,
   privateKey |-> IF ec.privateKey # NoCipher
                    THEN Str(Decrypt(ec.privateKey, EncryptionKey)) ELSE Absent,
   passphrase |-> IF ec.passphrase # NoCipher
                    THEN Str(Decrypt(ec.passphrase, EncryptionKey)) ELSE Absent]

NoCredentials ==
  [authMethod |-> "", password |-> Absent, privateKey |-> Absent, passphrase |-> Absent]

\* ssh:connect of the user u on the profile id, up to createConnection: the
\* error sent, or the credentials handed to the SSHManager
ConnectLookup(u, id) ==
  IF ~FindProfile(u, id) THEN [error |-> "Profile not found", credentials |-> NoCredentials]
  ELSE [error |-> "",
        credentials |-> DecryptCredentials(profiles[id].encrypted_credentials)]

\* requests: a well-formed base, every auth method with every choice of
\* secrets, and one malformed field at a time
HostX    == <<"x", ".", "i", "o">>
HostBad  == <<"-", "x">>
Names    == {"n1", "n2"}
Methods  == {"password", "publicKey", "token"}
Secret(kind) ==
  CASE kind = "password" -> Str(<<"a", "b">>)
    [] kind = "privateKey" -> Str(<<"b", "c", "a">>)
    [] OTHER -> Str(<<"c">>)

BaseRequest ==
  [name |-> "n1", host |-> Str(HostX), port |-> 0, username |-> "u",
   authMethod |-> "password", password |-> Secret("password"),
   privateKey |-> Absent, passphrase |-> Absent]

CreateInputs ==
  {[BaseRequest EXCEPT !.name = n, !.authMethod = m, !.password = pw,
                       !.privateKey = pk, !.passphrase = pp] :
     n \in Names, m \in Methods, pw \in {Absent, Secret("password")},
     pk \in {Absent, Secret("privateKey")}, pp \in {Absent, Secret("passphrase")}}
  \cup {[BaseRequest EXCEPT !.name = ""], [BaseRequest EXCEPT !.host = Str(HostBad)],
        [BaseRequest EXCEPT !.port = 70000], [BaseRequest EXCEPT !.username = ""],
        [BaseRequest EXCEPT !.authMethod = ""]}

NoUpdate == [name |-> "", host |-> Absent, port |-> 0, username |-> ""]

UpdateInputs ==
  {[NoUpdate EXCEPT !.name = n] : n \in Names \cup {""}}
  \cup {[NoUpdate EXCEPT !.host = Str(HostX)], [NoUpdate EXCEPT !.host = Str(HostBad)],
        [NoUpdate EXCEPT !.port = 22], [NoUpdate EXCEPT !.port = 70000],
        [NoUpdate EXCEPT !.username = "u"]}

ProfileKeys == 1 .. MaxProfiles + 1

\* the secrets a create request supplies
Supplied(req) ==
  [password |-> req.password, privateKey |-> req.privateKey, passphrase |-> req.passphrase]

\* POST /api/profiles; probe keeps the secrets of the last accepted request
\* and the id of its row
ProfileCreate(u, req, salt) ==
  /\ Len(profiles) < MaxProfiles
  /\ profiles' = CreateProfile(u, req, salt).profiles
  /\ IF CreateProfile(u, req, salt).status = 201
       THEN probe' = [fn |-> "createProfile", input |-> Supplied(req),
                      result |-> Len(profiles) + 1]
       ELSE UNCHANGED probe
  /\ UNCHANGED <<users, pending>>
  /\ UNCHANGED httpVars
  /\ UNCHANGED sessionVars

ProfileUpdate(u, id, req) ==
  /\ profiles' = UpdateProfile(u, id, req).profiles
  /\ UNCHANGED <<users, probe, pending>>
  /\ UNCHANGED httpVars
  /\ UNCHANGED sessionVars

ProfileDelete(u, id) ==
  /\ profiles' = DeleteProfile(u, id).profiles
  /\ UNCHANGED <<users, probe, pending>>
  /\ UNCHANGED httpVars
  /\ UNCHANGED sessionVars

ProfileNext ==
  \/ \E u \in Users, req \in CreateInputs, salt \in Salts : ProfileCreate(u, req, salt)
  \/ \E u \in Users, id \in ProfileKeys, req \in UpdateInputs : ProfileUpdate(u, id, req)
  \/ \E u \in Users, id \in ProfileKeys : ProfileDelete(u, id)

ProfileSpec == Init /\ [][ProfileNext]_vars

\* every operation on the profile id by the caller u answers not-found and
\* leaves the table as it is
AnswersNotFound(u, id) ==
  /\ ConnectLookup(u, id).error = "Profile not found"
  /\ TestConnection(u, id).status = 404
  /\ DeleteProfile(u, id).status = 404
  /\ DeleteProfile(u, id).profiles = profiles
  /\ \A req \in UpdateInputs :
       /\ UpdateProfile(u, id, req).status = 404
       /\ UpdateProfile(u, id, req).profiles = profiles

\* C25: a soft-deleted profile is observed by no operation: no listing shows
\* it, a create request with its name is not refused because of it, and
\* connect, update, delete and test on it answer not-found.
C25_SoftDeletedInvisible ==
  \A id \in DOMAIN profiles :
    ~profiles[id].is_active =>
      /\ \A u \in Users : \A row \in GetProfiles(u) : row.id # id
      /\ \A u \in Users : AnswersNotFound(u, id)
      /\ \A salt \in Salts :
           LET r == CreateProfile(profiles[id].user_id,
                                  [BaseRequest EXCEPT !.name = profiles[id].name], salt)
           IN \/ r.status = 201
              \/ \E j \in DOMAIN profiles :
                   /\ profiles[j].is_active
                   /\ profiles[j].user_id = profiles[id].user_id
                   /\ profiles[j].name = profiles[id].name

\* a profile was soft-deleted and its name was given to a new profile
C25_DeletedAndRecreated ==
  \E id, j \in DOMAIN profiles :
    /\ ~profiles[id].is_active
    /\ profiles[j].is_active
    /\ profiles[j].user_id = profiles[id].user_id
    /\ profiles[j].name = profiles[id].name

\* C26: the display names of the active profiles of one user are pairwise
\* distinct, after any sequence of create, update and delete operations.
C26_ActiveNamesDistinct ==
  \A i, j \in DOMAIN profiles :
    ( /\ i # j
      /\ profiles[i].is_active /\ profiles[j].is_active
      /\ profiles[i].user_id = profiles[j].user_id )
    => profiles[i].name # profiles[j].name

\* C27: update, delete, test and ssh:connect on a profile by a user who does
\* not own it answer not-found and leave its row, the active flag included,
\* unchanged.
C27_ScopedToCaller ==
  \A id \in DOMAIN profiles : \A u \in Users :
    u # profiles[id].user_id => AnswersNotFound(u, id)

\* both users own an active profile
C27_BothUsersOwnProfiles ==
  \E i, j \in DOMAIN profiles :
    /\ profiles[i].is_active /\ profiles[j].is_active
    /\ profiles[i].user_id # profiles[j].user_id

\* C28: the stored credentials agree with the auth method: under password
\* only a password ciphertext, under publicKey a private-key ciphertext (with
\* or without passphrase) and no password.
C28_CredentialsMatchMethod ==
  \A id \in DOMAIN profiles :
    LET ec == profiles[id].encrypted_credentials
    IN /\ profiles[id].auth_method = "password" =>
            /\ ec.password # NoCipher
            /\ ec.privateKey = NoCipher
            /\ ec.passphrase = NoCipher
       /\ profiles[id].auth_method = "publicKey" =>
            /\ ec.privateKey # NoCipher
            /\ ec.password = NoCipher

\* the secret resolved for a field is the one supplied, none where none was
SameSecret(resolved, supplied) ==
  IF Truthy(supplied) THEN resolved = supplied ELSE resolved = Absent

\* C29: decrypting what the vault encrypted, under the same key, gives the
\* secret back; so the credentials resolved at ssh:connect for a profile are
\* the secrets supplied when it was created.
C29_CredentialRoundTrip ==
  /\ \A kind \in {"password", "privateKey", "passphrase"}, salt \in Salts :
       Decrypt(Encrypt(Secret(kind).chars, EncryptionKey, salt), EncryptionKey)
         = Secret(kind).chars
  /\ (probe.fn = "createProfile" /\ FindProfile(profiles[probe.result].user_id, probe.result))
       => LET got == ConnectLookup(profiles[probe.result].user_id, probe.result)
          IN /\ got.error = ""
             /\ SameSecret(got.credentials.password, probe.input.password)
             /\ SameSecret(got.credentials.privateKey, probe.input.privateKey)
             /\ SameSecret(got.credentials.passphrase, probe.input.passphrase)

\* a profile was created with a salted key and a passphrase, and was renamed
C29_CreatedWithKeyAndPassphrase ==
  /\ probe.fn = "createProfile"
  /\ FindProfile(profiles[probe.result].user_id, probe.result)
  /\ profiles[probe.result].encrypted_credentials.privateKey.salt = 1
  /\ Truthy(probe.input.passphrase)
  /\ profiles[probe.result].name = "n2"

\* ---------------------------------------------------------------- assistant
\* A command is the sequence of its words. toLowerCase on the words of the model:
LowerWord(w) == CASE w = "RM" -> "rm" [] w = "-RF" -> "-rf" [] w = "Reboot" -> "reboot"
                  [] OTHER -> w

\* words that begin with "/", with "if=", with "/dev/sd" or "/dev/hd" and a letter
RootedWords == {"/", "/tmp"}
IfWords     == {"if=/dev/zero"}
DiskWords   == {"/dev/sda", "/dev/hdb"}

\* isDangerousCommand: the patterns, tested on the lower-cased command
IsDangerousCommand(cmd) ==
  LET w == [i \in DOMAIN cmd |-> LowerWord(cmd[i])]
  IN \/ Len(w) >= 3 /\ w[1] = "rm" /\ w[2] \in {"-rf", "-r"} /\ w[3] \in RootedWords
     \/ Len(w) >= 4 /\ w[1] = "sudo" /\ w[2] = "rm" /\ w[3] \in {"-rf", "-r"}
          /\ w[4] \in RootedWords
     \/ Len(w) >= 2 /\ w[1] = "dd" /\ w[2] \in IfWords
     \/ Len(w) >= 1 /\ w[1] \in {"mkfs", "fdisk", "shutdown", "reboot", "halt",
                                  "poweroff", "killall"}
     \/ w = <<"kill", "-9", "1">>
     \/ Len(w) >= 2 /\ w[1] = "pkill" /\ w[2] = "-f"
     \/ \E i \in 1 .. Len(w) - 1 : w[i] = ">" /\ w[i + 1] \in DiskWords

\* Math.min, on confidences counted in tenths
MinOf(a, b) == IF a <= b THEN a ELSE b

DangerWarning(cmd) == [kind |-> "dangerous", command |-> cmd]

\* the loop of translateNaturalLanguage over the commands, from the k-th on
RECURSIVE SafetyPass(_, _, _, _)
SafetyPass(commands, k, warnings, confidence) ==
  IF k > Len(commands) THEN [warnings |-> warnings, confidence |-> confidence]
  ELSE IF IsDangerousCommand(commands[k])
    THEN SafetyPass(commands, k + 1, Append(warnings, DangerWarning(commands[k])),
                    MinOf(confidence, 6))
  ELSE SafetyPass(commands, k + 1, warnings, confidence)

\* AIService.translateNaturalLanguage, given what parseAIResponse returned
TranslateNaturalLanguage(parsed) ==
  LET s == SafetyPass(parsed.commands, 1, parsed.warnings, parsed.confidence)
  IN [commands |-> parsed.commands, warnings |-> s.warnings, confidence |-> s.confidence]

\* AIService.explainCommand
ExplainCommand(command) ==
  [commands |-> <<command>>,
   warnings |-> IF IsDangerousCommand(command)
                  THEN <<DangerWarning(command), [kind |-> "review", command |-> command]>>
                  ELSE <<>>,
   confidence |-> 9]

CommandInputs ==
  {<<"ls">>, <<"rm", "-rf", "/">>, <<"RM", "-RF", "/tmp">>, <<"rm", "-rf", "build">>,
   <<"Reboot">>, <<"echo", "reboot">>, <<"echo", "x", ">", "/dev/sda">>}

CommandLists == UNION {[1 .. n -> CommandInputs] : n \in 0 .. MaxCommands}

\* what parseAIResponse can return: the JSON form (confidence of the model, or
\* 0.7), the code-block form (0.6) and the failure form (0.3)
ParsedInputs ==
  {[commands |-> cs, warnings |-> <<>>, confidence |-> c] :
     cs \in CommandLists, c \in {6, 7, 10}}
  \cup {[commands |-> <<>>, warnings |-> <<[kind |-> "parse", command |-> <<>>]>>,
         confidence |-> 3]}

\* the ai:response of the catch block of handleAIQuery
ErrorResponse ==
  [commands |-> <<>>, warnings |-> <<[kind |-> "unavailable", command |-> <<>>]>>,
   confidence |-> 0]

\* The ai:response messages a handler emits. available: the assistant call
\* did not throw; stored: the INSERT into ai_queries did not throw (its
\* session_id must name a terminal_sessions row).
HandleAIQuery(parsed, available, stored) ==
  IF available /\ stored THEN <<TranslateNaturalLanguage(parsed)>> ELSE <<ErrorResponse>>

HandleAITranslate(parsed, available) ==
  IF available THEN <<TranslateNaturalLanguage(parsed)>> ELSE <<>>

HandleAIExplain(command, available) ==
  IF available THEN <<ExplainCommand(command)>> ELSE <<>>

\* what a handler was given and what it emitted
AiRun(event, arg, available, emitted) ==
  [fn |-> event, input |-> [arg |-> arg, available |-> available], result |-> emitted]

\* ai:query
AiQuery(parsed, available, stored) ==
  /\ probe' = AiRun("ai:query", parsed, available, HandleAIQuery(parsed, available, stored))
  /\ UNCHANGED <<users, profiles, pending>>
  /\ UNCHANGED httpVars
  /\ UNCHANGED sessionVars

\* ai:translate
AiTranslate(parsed, available) ==
  /\ probe' = AiRun("ai:translate", parsed, available, HandleAITranslate(parsed, available))
  /\ UNCHANGED <<users, profiles, pending>>
  /\ UNCHANGED httpVars
  /\ UNCHANGED sessionVars

\* ai:explain
AiExplain(command, available) ==
  /\ probe' = AiRun("ai:explain", command, available, HandleAIExplain(command, available))
  /\ UNCHANGED <<users, profiles, pending>>
  /\ UNCHANGED httpVars
  /\ UNCHANGED sessionVars

AiEvents == {"ai:query", "ai:translate", "ai:explain"}

AiNext ==
  \/ \E parsed \in ParsedInputs, available \in BOOLEAN, stored \in BOOLEAN :
        AiQuery(parsed, available, stored)
  \/ \E parsed \in ParsedInputs, available \in BOOLEAN : AiTranslate(parsed, available)
  \/ \E command \in CommandInputs, available \in BOOLEAN : AiExplain(command, available)

AiSpec == Init /\ [][AiNext]_vars

\* C30: in every assistant response, from translate and from explain, a
\* command of the list that the dangerous-command classifier matches has a
\* warning in the response, and the confidence is then at most 0.6.
C30_DangerousWarnedAndClamped ==
  probe.fn \in AiEvents =>
    \A m \in DOMAIN probe.result :
      LET response == probe.result[m] IN
      \A k \in DOMAIN response.commands :
        IsDangerousCommand(response.commands[k]) =>
          /\ \E i \in DOMAIN response.warnings :
               response.warnings[i] = DangerWarning(response.commands[k])
          /\ response.confidence <= 6

\* C31: an ai:query, ai:translate or ai:explain whose assistant call fails is
\* answered with exactly one ai:response, with no commands, confidence 0 and
\* a warning; the handler leaves the connections, the session mappings and the
\* session rows as they were.
C31_FailureAnsweredOnce ==
  probe.fn \in AiEvents /\ ~probe.input.available =>
    /\ Len(probe.result) = 1
    /\ probe.result[1].commands = <<>>
    /\ probe.result[1].confidence = 0
    /\ probe.result[1].warnings # <<>>
    /\ connections = {} /\ dbSessions = [s \in SessionIds |-> NoRow]
    /\ userSessions = [b \in Brokers |-> [s \in SessionIds |-> 0]]

\* ---------------------------------------------------------- ssh:disconnect
\* A server started on a database that earlier runs have written: the
\* terminal_sessions table may hold the row of a session of user 2.
DurableRows ==
  {[s \in SessionIds |-> NoRow],
   [s \in SessionIds |-> IF s = "s2"
       THEN [exists |-> TRUE, user_id |-> 2, profile_id |-> "p2", status |-> CONNECTED]
       ELSE NoRow]}

DurableInit ==
  /\ InitExceptRows
  /\ dbSessions \in DurableRows

\* sessions being opened, losing their shell and being disconnected
DisconnectNext ==
  \/ \E b \in Brokers, u \in Users : ChannelOpen(b, u)
  \/ \E b \in Brokers, s \in SessionIds, p \in ProfileIds, ok \in BOOLEAN :
        SSHConnect(b, s, p, ok)
  \/ \E d \in dials, ok \in BOOLEAN : DialDone(d, ok)
  \/ \E sh \in openShells \cup endedShells : ShellClose(sh)
  \/ \E c \in ConnIds : TimerFire(c)
  \/ \E c \in ConnIds, ok \in BOOLEAN : RedialDone(c, ok)
  \/ \E b \in Brokers, s \in SessionIds : SSHDisconnect(b, s)

DisconnectSpec == DurableInit /\ [][DisconnectNext]_vars

\* the rows of terminal_sessions that belong to another user than u
RowsOfOthers(db, u) == {s \in SessionIds : db[s].exists /\ db[s].user_id # u}

\* C32: an ssh:disconnect for a session-id in the mapping of its broker leaves
\* the mapped connection out of the map of SSHManager, the session-id out of
\* the mapping and the terminal_sessions row of that id and user with status
\* disconnected; one for a session-id not in the mapping leaves the map of
\* SSHManager as it was; neither changes a row of another user.
C32_DisconnectClosesAndRecords ==
  \A b \in Brokers : \A s \in SessionIds :
     chan[b] = "open" =>
       LET c == userSessions[b][s]
           r == DisconnectResult(b, s) IN
       /\ c # 0 =>
             /\ c \notin r.conns
             /\ r.us[b][s] = 0
             /\ dbSessions[s].exists /\ dbSessions[s].user_id = user[b] =>
                   r.db[s].status = DISCONNECTED
       /\ c = 0 => r.conns = connections /\ r.open = openShells
       /\ \A o \in RowsOfOthers(dbSessions, user[b]) : r.db[o] = dbSessions[o]

\* a mapped session was disconnected and its row says so, another session is
\* still connected, and the table holds a row of another user
C32_DisconnectedBesideOthers ==
  /\ \E s \in SessionIds :
        /\ dbSessions[s].exists /\ dbSessions[s].user_id = user[1]
        /\ dbSessions[s].status = DISCONNECTED /\ userSessions[1][s] = 0
  /\ \E c \in connections : conn[c].status = CONNECTED
  /\ RowsOfOthers(dbSessions, user[1]) # {}

\* ------------------------------------------------ stored session status
\* the last element of a non-empty sequence
Last(q) == q[Len(q)]

\* C33: whenever SSHManager emits status changes for a connection that an
\* open channel maps to session S, the handler run leaves the
\* terminal_sessions row of S with the status emitted last, so the stored
\* status of S is the status SSHManager last reported for it.
C33_StoredStatusIsLastReported ==
  \A x \in Steps : \A b \in Brokers : \A s \in SessionIds :
     LET c == userSessions[b][s] IN
     /\ chan[b] = "open" /\ c # 0
     /\ dbSessions[s].exists /\ dbSessions[s].user_id = user[b]
     /\ StatusEvents(x.r, c) # <<>>
     => x.r.db[s].status = Last(StatusEvents(x.r, c)).status

\* ------------------------------------------------------ status transitions
\* the transition diagram of a connection ("none": no record yet)
Diagram ==
  {<<"none", CONNECTING>>,
   <<CONNECTING, CONNECTED>>, <<CONNECTING, ERROR>>,
   <<CONNECTED, DISCONNECTED>>, <<CONNECTED, ERROR>>,
   <<DISCONNECTED, RECONNECTING>>, <<ERROR, RECONNECTING>>,
   <<RECONNECTING, CONNECTED>>, <<RECONNECTING, ERROR>>}

\* the handler runs of createConnection, of the shell events and of the
\* reconnection timer
ManagerOps == {"ssh:connect", "dialOk", "dialFail", "shellClose", "shellError",
               "timer", "redialOk", "redialFail"}

\* the status of c before a run, followed by the statuses the run emits for c
StatusPath(x, c) == <<conn[c].status>> \o Statuses(StatusEvents(x.r, c))

\* C34: every status change of a connection that createConnection, a shell
\* close, a transport error or a reconnection timer makes follows the
\* transition diagram; so reconnecting is never entered from connected and
\* disconnected never from error or reconnecting.
C34_TransitionsFollowDiagram ==
  \A x \in Steps : x.op \in ManagerOps =>
     \A c \in ConnIds :
        \A i \in 1 .. Len(StatusPath(x, c)) - 1 :
           <<StatusPath(x, c)[i], StatusPath(x, c)[i + 1]>> \in Diagram

\* ------------------------------------------------- connected connections
\* C35: every connection in the map whose status is connected has a shell,
\* and a pass of the sweeper leaves in the map no connected connection whose
\* last activity is older than the 30-minute window.
C35_ConnectedHasShellAndIsFresh ==
  /\ \A c \in connections : conn[c].status = CONNECTED => conn[c].shell # 0
  /\ \A c \in SweepResult.conns :
        SweepResult.conn[c].status = CONNECTED =>
           SweepResult.conn[c].shell # 0 /\ SweepResult.conn[c].idle <= IdleLimit

\* the sweeper has closed an idle connection of an open channel and kept a
\* connected one that had activity
C35_SweptAndKept ==
  /\ \E c \in ConnIds :
        /\ c \notin connections /\ conn[c].idle > IdleLimit /\ conn[c].announced
        /\ chan[conn[c].owner] = "open"
        /\ dbSessions[conn[c].session].status = CONNECTED
  /\ \E c \in connections :
        conn[c].status = CONNECTED /\ conn[c].shell # 0 /\ conn[c].idle <= IdleLimit

\* ------------------------------------------------------ session isolation
\* the terminal:output messages of a run that are tagged with session s
OutputsFor(r, s) ==
  SelectSeq(r.sent, LAMBDA m : m.type = "terminal:output" /\ m.sessionId = s)

\* C36: with sessions S1 and S2 of one broker mapped to different
\* connections, a terminal:input or terminal:resize for S1 leaves the
\* connection of S2 and what was written to its shell as they were and, when
\* the connection of S1 is connected, reaches that connection; a data event of
\* the connection of S1 sends no terminal:output tagged with S2.
C36_SessionsIsolated ==
  \A b \in Brokers : \A s1, s2 \in SessionIds :
     LET c1 == userSessions[b][s1]
         c2 == userSessions[b][s2]
         in == InputResult(b, s1, counts.inputs + 1)
         rs == ResizeResult(b, s1, [cols |-> 100, rows |-> 30]) IN
     chan[b] = "open" /\ c1 # 0 /\ c2 # 0 /\ c1 # c2 =>
        /\ in.written[c2] = written[c2] /\ in.conn[c2] = conn[c2]
        /\ rs.conn[c2] = conn[c2]
        /\ ~SendCommandThrows(Cur, c1) =>
              /\ in.written[c1] = Append(written[c1], counts.inputs + 1)
              /\ rs.conn[c1].window = [cols |-> 100, rows |-> 30]
        /\ \A sh \in ShellsOf(openShells, c1) : OutputsFor(DataResult(sh), s2) = <<>>

\* two sessions are mapped to different connected connections, and only one
\* of them has been sent input
C36_TwoSessionsOneWritten ==
  \E b \in Brokers : \E s1, s2 \in SessionIds :
     LET c1 == userSessions[b][s1]
         c2 == userSessions[b][s2] IN
     /\ chan[b] = "open" /\ c1 # 0 /\ c2 # 0 /\ c1 # c2
     /\ conn[c1].status = CONNECTED /\ conn[c2].status = CONNECTED
     /\ written[c1] # <<>> /\ written[c2] = <<>>

\* ---------------------------------------------------- exactly-once forwarding
\* the messages of one type a run sends to the client of broker b
SentTo(r, b, type) == SelectSeq(r.sent, LAMBDA m : m.type = type /\ m.to = b)

\* the data events of a run that are about connection c
DataEvents(r, c) == SelectSeq(r.emitted, LAMBDA e : e.event = "data" /\ e.c = c)

\* C37: for a session established through ssh:connect whose channel is open,
\* a data event of its connection sends exactly one terminal:output to the
\* client, and a status event of its connection exactly one ssh:status.
C37_ForwardedExactlyOnce ==
  \A c \in connections :
     LET b == conn[c].owner IN
     conn[c].announced /\ chan[b] = "open" /\ userSessions[b][conn[c].session] = c =>
        /\ \A sh \in ShellsOf(openShells, c) :
              Len(SentTo(DataResult(sh), b, "terminal:output"))
                 = Len(DataEvents(DataResult(sh), c))
        /\ \A sh \in ShellsOf(openShells, c) :
              Len(SentTo(ErrorResult(sh), b, "ssh:status"))
                 = Len(StatusEvents(ErrorResult(sh), c))

\* ------------------------------------------------------------ closed is final
\* C38: once closeConnection has removed a connection that createConnection
\* returned, no handler run emits a status or data event for it, so the
\* status(disconnected) of closeConnection is the last event of the id, also
\* when a reconnection timer or a redial of the id was pending at the close.
C38_ClosedIsFinal ==
  \A c \in ConnIds :
     conn[c].result = "returned" /\ c \notin connections =>
        \A x \in Steps : StatusEvents(x.r, c) = <<>> /\ DataEvents(x.r, c) = <<>>

\* ------------------------------------------------------ orphaned connections
\* C39: while the channel of a broker is open, every connection in the map
\* that createConnection returned to that broker is the entry of some
\* session-id in the session mapping of the broker.
C39_NoOrphanedConnection ==
  \A c \in connections :
     conn[c].result = "returned" /\ chan[conn[c].owner] = "open" =>
        Mapped(userSessions, conn[c].owner, c)

\* ------------------------------------------------------- the bundled client
\* the frame handleData of the Terminal component emits for typed text k
InputFrame(s, k) == [sessionId |-> s, field |-> "input", value |-> k]

\* frame[name]; 0 stands for undefined
FieldOf(frame, name) == IF frame.field = name THEN frame.value ELSE 0

\* handleTerminalInput on a frame: it reads data.sessionId and data.data
HandleTerminalInput(b, frame) ==
  InputResult(b, frame.sessionId, FieldOf(frame, "data"))

\* handleOutput of the Terminal component writes data.output to the terminal
ClientReads(m) == m.field = "output"

\* the user types into the terminal of session s; the text is named by its
\* number among the texts typed
TerminalKey(b, s) ==
  /\ chan[b] = "open"
  /\ counts.inputs < MaxInputs
  /\ LET c == userSessions[b][s]
         k == counts.inputs + 1 IN
     /\ Commit(HandleTerminalInput(b, InputFrame(s, k)))
     /\ counts' = [counts EXCEPT !.inputs = k]
     /\ recv' = IF c # 0 /\ c \in connections /\ conn[c].status = CONNECTED
                  THEN [recv EXCEPT ![c] = Append(@, k)]
                  ELSE recv
  /\ UNCHANGED <<user, nextId, dials, redials>>

\* sessions being opened and used from the bundled client
ClientNext ==
  \/ \E b \in Brokers, u \in Users : ChannelOpen(b, u)
  \/ \E b \in Brokers, s \in SessionIds, p \in ProfileIds, ok \in BOOLEAN :
        SSHConnect(b, s, p, ok)
  \/ \E d \in dials, ok \in BOOLEAN : DialDone(d, ok)
  \/ \E b \in Brokers, s \in SessionIds : TerminalKey(b, s)

ClientSpec == Init /\ [][ClientNext]_vars

\* C40: the text of every non-empty terminal:input frame the Terminal
\* component emits for a mapped, connected session is written to the shell of
\* that session, and every terminal:output frame the server emits carries the
\* shell data in the field the Terminal component reads.
C40_ClientAndServerAgree ==
  /\ \A c \in ConnIds : written[c] = recv[c]
  /\ \A sh \in openShells :
        \A i \in DOMAIN DataResult(sh).sent :
           DataResult(sh).sent[i].type = "terminal:output" =>
              ClientReads(DataResult(sh).sent[i])

====
